---- MODULE Spec2Model ----
(***************************************************************************)
(* Verification model of the pigeon kanban service.  The repository holds  *)
(* three interchangeable variants of the same board/column/card service:   *)
(*   "app"     src/app/main.py + src/app/db.py   (FastAPI, SQLAlchemy)      *)
(*   "server"  src/server.py                     (http.server, sqlite3)     *)
(*   "storage" src/app/storage.py                (in-memory store)          *)
(* and three copies of the fractional-indexing key algorithm.  A run of    *)
(* the model fixes one variant (variable `variant`) and then executes that *)
(* variant's handlers.                                                     *)
(*                                                                         *)
(* Keys are sequences of symbol values 0..35 (the index of a character in  *)
(* ALPHABET); Python's None is the sentinel None for keys, NoId for ids    *)
(* and NoUser for user names.                                              *)
(***************************************************************************)
EXTENDS Integers, Sequences, FiniteSets, TLC

VARIABLES
    variant,    \* which variant of the service runs
    scope,      \* which kind of entity the requests of this run address
    kl, kr,     \* key space: the two bounds handed to midpoint
    kout,       \* key space: the key returned
    kpc,        \* key space: "call" before the call, then the copy that ran
    kseq,       \* key space: the keys returned so far to a caller that
                \* always inserts at the very start
    boards,     \* boards table: board id -> row
    members,    \* board_memberships table: board id -> user -> row
    columns,    \* columns table: column id -> row
    cards,      \* cards table: card id -> row
    invitations,\* invitations table: invitation id -> row
    now,        \* the clock: the next value now_utc() / now_iso() returns
    ses         \* requests: session -> the request it runs or last answered

keyVars == <<kl, kr, kout, kpc, kseq>>
dbVars == <<boards, members, columns, cards, invitations>>
svcVars == <<boards, members, columns, cards, invitations, now, ses>>
vars == <<variant, scope, kl, kr, kout, kpc, kseq, boards, members, columns, cards,
          invitations, now, ses>>

----------------------------------------------------------------------------
(* Key space: src/app/lexorank.py, src/app/utils.py, src/server.py         *)

\* ALPHABET = "0123456789abcdefghijklmnopqrstuvwxyz": symbol values 0..35
MIN == 0
MAX == 35
Symbols == MIN..MAX

\* Python's None for an Optional[str] key
None == << -1 >>

\* `left or ""`: None and the empty string both become the empty string
OrEmpty(k) == IF k = None \/ k = <<>> THEN <<>> ELSE k

\* A2I[S[i]] if i < len(S) else pad   (Python index i is position i + 1)
SymbolAt(S, i, pad) == IF i < Len(S) THEN S[i + 1] ELSE pad

\* Mutation of the scan: splits as soon as l < r (mid may equal l)
RECURSIVE LexorankScanOffByOne(_, _, _, _)
LexorankScanOffByOne(L, R, i, out) ==
    LET l == SymbolAt(L, i, MIN)
        r == SymbolAt(R, i, MAX)
    IN  IF l < r
        THEN Append(out, (l + r) \div 2)
        ELSE LexorankScanOffByOne(L, R, i + 1, Append(out, l))

\* Mutation of the scan of app.lexorank: the middle is rounded up
RECURSIVE LexorankScanRoundsUp(_, _, _, _)
LexorankScanRoundsUp(L, R, i, out) ==
    LET l == SymbolAt(L, i, MIN)
        r == SymbolAt(R, i, MAX)
    IN  IF l + 1 < r
        THEN Append(out, (l + r + 1) \div 2)
        ELSE LexorankScanRoundsUp(L, R, i + 1, Append(out, l))

\* app.lexorank.midpoint: the while loop from position i with output out
RECURSIVE LexorankScan(_, _, _, _)
LexorankScan(L, R, i, out) ==
    LET l == SymbolAt(L, i, MIN)
        r == SymbolAt(R, i, MAX)
    IN  IF l + 1 < r
        THEN Append(out, (l + r) \div 2)
        ELSE LexorankScan(L, R, i + 1, Append(out, l))

\* Mutation: one more symbol is appended after the split
MidpointWithTrailingSymbol(left, right) ==
    Append(LexorankScan(OrEmpty(left), OrEmpty(right), 0, <<>>), MAX)

midpoint(left, right) == LexorankScan(OrEmpty(left), OrEmpty(right), 0, <<>>)

\* Mutation of the scan of app.utils: splits as soon as l < r
RECURSIVE UtilsScanOffByOne(_, _, _, _)
UtilsScanOffByOne(L, R, i, out) ==
    LET l == SymbolAt(L, i, MIN)
        r == SymbolAt(R, i, MAX)
    IN  IF l < r
        THEN Append(out, (l + r) \div 2)
        ELSE UtilsScanOffByOne(L, R, i + 1, Append(out, l))

\* Mutation of the scan of app.utils: the split appends l, not the middle
RECURSIVE UtilsScanAppendsLeft(_, _, _, _)
UtilsScanAppendsLeft(L, R, i, out) ==
    LET l == SymbolAt(L, i, MIN)
        r == SymbolAt(R, i, MAX)
    IN  IF l + 1 < r
        THEN Append(out, l)
        ELSE UtilsScanAppendsLeft(L, R, i + 1, Append(out, l))

\* Mutation of the scan of app.utils: splits as soon as l < r and rounds
\* the middle up
RECURSIVE UtilsScanRoundsUp(_, _, _, _)
UtilsScanRoundsUp(L, R, i, out) ==
    LET l == SymbolAt(L, i, MIN)
        r == SymbolAt(R, i, MAX)
    IN  IF l < r
        THEN Append(out, (l + r + 1) \div 2)
        ELSE UtilsScanRoundsUp(L, R, i + 1, Append(out, l))

\* app.utils.lexo_midpoint
RECURSIVE UtilsScan(_, _, _, _)
UtilsScan(L, R, i, out) ==
    LET l == SymbolAt(L, i, MIN)
        r == SymbolAt(R, i, MAX)
    IN  IF l + 1 < r
        THEN Append(out, (l + r) \div 2)
        ELSE UtilsScan(L, R, i + 1, Append(out, l))

\* Mutation: the bounds are scanned as given, without `or ""`
LexoMidpointKeepsNone(left, right) == UtilsScan(left, right, 0, <<>>)

lexo_midpoint(left, right) == UtilsScan(OrEmpty(left), OrEmpty(right), 0, <<>>)

\* Mutation of the scan of server.py: splits as soon as l < r
RECURSIVE ServerScanOffByOne(_, _, _, _)
ServerScanOffByOne(L, R, i, out) ==
    LET l == SymbolAt(L, i, MIN)
        r == SymbolAt(R, i, MAX)
    IN  IF l < r
        THEN Append(out, (l + r) \div 2)
        ELSE ServerScanOffByOne(L, R, i + 1, Append(out, l))

\* server.midpoint
RECURSIVE ServerScan(_, _, _, _)
ServerScan(L, R, i, out) ==
    LET l == SymbolAt(L, i, MIN)
        r == SymbolAt(R, i, MAX)
    IN  IF l + 1 < r
        THEN Append(out, (l + r) \div 2)
        ELSE ServerScan(L, R, i + 1, Append(out, l))

\* Mutation: the scan of the bounds starts one position late
ServerMidpointStartsLate(left, right) ==
    ServerScan(<<MIN>> \o OrEmpty(left), <<MIN>> \o OrEmpty(right), 0, <<>>)

server_midpoint(left, right) == ServerScan(OrEmpty(left), OrEmpty(right), 0, <<>>)

\* Lexicographic order of Python str / SQL text over ALPHABET (code point
\* order of "0".."9","a".."z" is the order of the symbol values)
RECURSIVE LexLess(_, _)
LexLess(a, b) ==
    IF a = <<>> THEN b # <<>>
    ELSE IF b = <<>> THEN FALSE
    ELSE IF a[1] # b[1] THEN a[1] < b[1]
    ELSE LexLess(Tail(a), Tail(b))

----------------------------------------------------------------------------
(* Data model: src/app/db.py, src/server.py (ensure_db), src/app/models.py *)
(* Ids are uuid4 strings in the code; the model names them 1, 2, ... in    *)
(* allocation order.  Free-text descriptions, display names and avatar     *)
(* urls are carried by no check of the code and are left out; name/title   *)
(* stand for the data fields of a row.                                     *)

BoardIds == {1}
ColIds == {1, 2, 3}
CardIds == {1, 2}
InvIds == {1}
Users == {"u1", "u2", "u3"}
Sessions == {1, 2}

\* Python's None / a missing JSON field, per type
NoId == 0
NoUser == ""
NoRole == "none"
NoText == "<none>"
NoStamp == -1

\* An If-Match header or an expectedVersion field.  IfMatchVersion(n) is the
\* header "n" (quoted or not: strip('"') removes the quotes) and the integer
\* expectedVersion n; etag_from(t) is the header etag_from hashes from the
\* timestamp t (the hash is taken as one-to-one).
NoToken == [kind |-> "none", v |-> 0]
IfMatchVersion(n) == [kind |-> "version", v |-> n]

\* Mutation: an ETag that does not depend on the timestamp
EtagOfNothing(t) == [kind |-> "etag", v |-> 0]

etag_from(t) == [kind |-> "etag", v |-> t]

\* Mutation: the comparison of the token with the version is left out
VersionMismatchNever(token, version) == FALSE

\* if_match.strip('"') != str(version)   /   expectedVersion != version
VersionMismatch(token, version) == token # IfMatchVersion(version)

\* Caps on the counters that grow without bound
MaxVersion == 2
MaxClock == 4

NoBoard == [exists |-> FALSE, owner |-> NoUser, name |-> "", version |-> 0,
            updated_at |-> 0]
NoMember == [exists |-> FALSE, role |-> NoRole, status |-> ""]
NoColumn == [exists |-> FALSE, board |-> NoId, name |-> "", sort_key |-> None,
             version |-> 0, created_at |-> 0, updated_at |-> 0]
NoCard == [exists |-> FALSE, board |-> NoId, column |-> NoId, title |-> "",
           sort_key |-> None, version |-> 0, created_at |-> 0]
NoInvitation == [exists |-> FALSE, board |-> NoId, role |-> NoRole,
                 status |-> "", token |-> NoId]

\* What a request changes at its commit: NoText / NoId / None / NoToken mark
\* an attribute the request did not modify (SQLAlchemy's UPDATE sets only the
\* modified attributes)
NoWrite == [name |-> NoText, board |-> NoId, col |-> NoId, key |-> None,
            keyset |-> FALSE, ver |-> NoStamp, time |-> NoStamp,
            user |-> NoUser, role |-> NoRole,
            before |-> NoId, after |-> NoId]
Idle == [pc |-> "idle", op |-> "", id |-> NoId, token |-> NoToken, resp |-> 0,
         w |-> NoWrite]

\* str.strip() on the names the model feeds in
Strip(t) == CASE t = " " -> ""
              [] t = " b" -> "b"
              [] OTHER -> t
NameInputs == {" b", " "}

BoardExists(b) == b \in BoardIds /\ boards[b].exists
ColumnRow(c) == IF c \in ColIds THEN columns[c] ELSE NoColumn
CardRow(c) == IF c \in CardIds THEN cards[c] ELSE NoCard

----------------------------------------------------------------------------
(* Roles: src/app/main.py get_role / ensure_role,                          *)
(*        src/server.py role_for_user / require_member                     *)

\* Mutation: get_role without the owner's shortcut
GetRoleOfMembership(b, u) ==
    IF members[b][u].exists /\ members[b][u].status = "active"
    THEN members[b][u].role
    ELSE NoRole

get_role(b, u) ==
    IF boards[b].owner = u THEN "admin"
    ELSE IF members[b][u].exists /\ members[b][u].status = "active"
         THEN members[b][u].role
         ELSE NoRole

ensure_role(required, role) == role # NoRole /\ role \in required

\* Mutation: the owner is given no role of their own
RoleForUserOfMembership(b, u) ==
    IF u = NoUser THEN NoRole
    ELSE IF ~BoardExists(b) THEN NoRole
    ELSE IF members[b][u].exists /\ members[b][u].status = "active"
         THEN members[b][u].role
         ELSE NoRole

role_for_user(b, u) ==
    IF u = NoUser THEN NoRole
    ELSE IF ~BoardExists(b) THEN NoRole
    ELSE IF boards[b].owner = u THEN "admin"
    ELSE IF members[b][u].exists /\ members[b][u].status = "active"
         THEN members[b][u].role
         ELSE NoRole

RoleOrder(r) == CASE r = "reader" -> 1
                  [] r = "writer" -> 2
                  [] r = "admin" -> 3
                  [] OTHER -> 0

require_member(role, min_role) ==
    IF role = NoRole THEN FALSE ELSE RoleOrder(role) >= RoleOrder(min_role)

----------------------------------------------------------------------------
(* Requests.  A handler of src/app/main.py runs in a worker thread with a  *)
(* session of its own: it first reads and checks (one step: the rows it    *)
(* loads are its snapshot) and then commits (a second step), so handlers   *)
(* interleave between the two.  src/server.py serves one request at a time *)
(* (HTTPServer), each handler is one step of session 1.                    *)

CanBegin(s) == ses[s].pc # "commit"

\* The request of session s ends here, before any write, with status code
Respond(s, op, id, code) ==
    ses' = [ses EXCEPT ![s] = [pc |-> "done", op |-> op, id |-> id,
                               token |-> NoToken, resp |-> code, w |-> NoWrite]]

\* The request of session s is applied and answered in the same step
Succeed(s, op, id, token, code) ==
    ses' = [ses EXCEPT ![s] = [pc |-> "done", op |-> op, id |-> id,
                               token |-> token, resp |-> code, w |-> NoWrite]]

\* The request of session s passed its checks and will commit w
Stage(s, op, id, token, w) ==
    ses' = [ses EXCEPT ![s] = [pc |-> "commit", op |-> op, id |-> id,
                               token |-> token, resp |-> 0, w |-> w]]

Committing(s, op) == ses[s].pc = "commit" /\ ses[s].op = op

\* db.commit() returned (or raised: 500) and the handler answered
Finish(s, code) ==
    ses' = [ses EXCEPT ![s].pc = "done", ![s].resp = code, ![s].w = NoWrite]

----------------------------------------------------------------------------
(* src/app/main.py: boards, columns and cards under optimistic concurrency *)

\* update_board, up to db.commit()
AppUpdateBoard(s, u, b, name, token) ==
    /\ variant = "app"
    /\ CanBegin(s)
    /\ IF ~BoardExists(b)
       THEN Respond(s, "update_board", b, 404) /\ UNCHANGED now
       ELSE IF ~ensure_role({"admin", "writer"}, get_role(b, u))
       THEN Respond(s, "update_board", b, 403) /\ UNCHANGED now
       ELSE IF token # NoToken /\ token # etag_from(boards[b].updated_at)
       THEN Respond(s, "update_board", b, 412) /\ UNCHANGED now
       ELSE IF Strip(name) = ""
       THEN Respond(s, "update_board", b, 422) /\ UNCHANGED now
       ELSE /\ now < MaxClock
            /\ Stage(s, "update_board", b, token,
                     [NoWrite EXCEPT
                        !.name = IF Strip(name) = boards[b].name
                                 THEN NoText ELSE Strip(name),
                        !.time = now])
            /\ now' = now + 1
    /\ UNCHANGED <<variant, scope, keyVars, dbVars>>

\* update_board: db.commit()
AppCommitUpdateBoard(s) ==
    /\ variant = "app"
    /\ Committing(s, "update_board")
    /\ LET b == ses[s].id IN
       IF ~boards[b].exists
       THEN Finish(s, 500) /\ UNCHANGED boards
       ELSE /\ boards' = [boards EXCEPT
                     ![b].name = IF ses[s].w.name = NoText THEN @
                                 ELSE ses[s].w.name,
                     ![b].updated_at = ses[s].w.time]
            /\ Finish(s, 200)
    /\ UNCHANGED <<variant, scope, keyVars, members, columns, cards, invitations, now>>

\* delete_board, up to db.commit()
AppDeleteBoard(s, u, b, token) ==
    /\ variant = "app"
    /\ CanBegin(s)
    /\ IF ~BoardExists(b)
       THEN Respond(s, "delete_board", b, 404)
       ELSE IF ~ensure_role({"admin"}, get_role(b, u))
       THEN Respond(s, "delete_board", b, 403)
       ELSE IF token # NoToken /\ token # etag_from(boards[b].updated_at)
       THEN Respond(s, "delete_board", b, 412)
       ELSE Stage(s, "delete_board", b, token, NoWrite)
    /\ UNCHANGED <<variant, scope, keyVars, dbVars, now>>

\* delete_board: db.commit() deletes the board and, by the relationships'
\* cascade="all, delete-orphan", its columns, cards and memberships
AppCommitDeleteBoard(s) ==
    /\ variant = "app"
    /\ Committing(s, "delete_board")
    /\ LET b == ses[s].id IN
       /\ boards' = [boards EXCEPT ![b] = NoBoard]
       /\ members' = [members EXCEPT ![b] = [u \in Users |-> NoMember]]
       /\ columns' = [c \in ColIds |->
                        IF columns[c].board = b THEN NoColumn ELSE columns[c]]
       /\ cards' = [c \in CardIds |->
                        IF cards[c].board = b THEN NoCard ELSE cards[c]]
    /\ Finish(s, 204)
    /\ UNCHANGED <<variant, scope, keyVars, invitations, now>>

\* rename_column, up to db.commit()
AppRenameColumn(s, u, b, c, name, token) ==
    /\ variant = "app"
    /\ CanBegin(s)
    /\ IF ~BoardExists(b)
       THEN Respond(s, "rename_column", c, 404) /\ UNCHANGED now
       ELSE IF ~ensure_role({"admin", "writer"}, get_role(b, u))
       THEN Respond(s, "rename_column", c, 403) /\ UNCHANGED now
       ELSE IF ~ColumnRow(c).exists \/ ColumnRow(c).board # b
       THEN Respond(s, "rename_column", c, 404) /\ UNCHANGED now
       ELSE IF token # NoToken /\ token # etag_from(columns[c].updated_at)
       THEN Respond(s, "rename_column", c, 412) /\ UNCHANGED now
       ELSE IF Strip(name) = ""
       THEN Respond(s, "rename_column", c, 422) /\ UNCHANGED now
       ELSE /\ now < MaxClock
            /\ Stage(s, "rename_column", c, token,
                     [NoWrite EXCEPT
                        !.name = IF Strip(name) = columns[c].name
                                 THEN NoText ELSE Strip(name),
                        !.time = now])
            /\ now' = now + 1
    /\ UNCHANGED <<variant, scope, keyVars, dbVars>>

\* rename_column: db.commit()
AppCommitRenameColumn(s) ==
    /\ variant = "app"
    /\ Committing(s, "rename_column")
    /\ LET c == ses[s].id IN
       IF ~columns[c].exists
       THEN Finish(s, 500) /\ UNCHANGED columns
       ELSE /\ columns' = [columns EXCEPT
                     ![c].name = IF ses[s].w.name = NoText THEN @
                                 ELSE ses[s].w.name,
                     ![c].updated_at = ses[s].w.time]
            /\ Finish(s, 200)
    /\ UNCHANGED <<variant, scope, keyVars, boards, members, cards, invitations, now>>

\* delete_column, up to db.commit()
AppDeleteColumn(s, u, b, c, token) ==
    /\ variant = "app"
    /\ CanBegin(s)
    /\ IF ~BoardExists(b)
       THEN Respond(s, "delete_column", c, 404)
       ELSE IF ~ensure_role({"admin", "writer"}, get_role(b, u))
       THEN Respond(s, "delete_column", c, 403)
       ELSE IF ~ColumnRow(c).exists \/ ColumnRow(c).board # b
       THEN Respond(s, "delete_column", c, 404)
       ELSE IF token # NoToken /\ token # etag_from(columns[c].updated_at)
       THEN Respond(s, "delete_column", c, 412)
       ELSE Stage(s, "delete_column", c, token, NoWrite)
    /\ UNCHANGED <<variant, scope, keyVars, dbVars, now>>

\* delete_column: db.commit() deletes the column and, by ColumnModel.cards'
\* cascade, its cards
AppCommitDeleteColumn(s) ==
    /\ variant = "app"
    /\ Committing(s, "delete_column")
    /\ LET c == ses[s].id IN
       /\ columns' = [columns EXCEPT ![c] = NoColumn]
       /\ cards' = [k \in CardIds |->
                        IF cards[k].column = c THEN NoCard ELSE cards[k]]
    /\ Finish(s, 204)
    /\ UNCHANGED <<variant, scope, keyVars, boards, members, invitations, now>>

\* Mutation: update_card compares the version before it checks the role
AppUpdateCardVersionFirst(s, u, b, col, c, title, token) ==
    /\ variant = "app"
    /\ CanBegin(s)
    /\ IF ~BoardExists(b)
       THEN Respond(s, "update_card", c, 404)
       ELSE IF ~CardRow(c).exists \/ CardRow(c).board # b
               \/ CardRow(c).column # col
       THEN Respond(s, "update_card", c, 404)
       ELSE IF token # NoToken /\ VersionMismatch(token, cards[c].version)
       THEN Respond(s, "update_card", c, 412)
       ELSE IF ~ensure_role({"admin", "writer"}, get_role(b, u))
       THEN Respond(s, "update_card", c, 403)
       ELSE IF title # NoText /\ Strip(title) = ""
       THEN Respond(s, "update_card", c, 422)
       ELSE /\ cards[c].version < MaxVersion
            /\ Stage(s, "update_card", c, token,
                     [NoWrite EXCEPT
                        !.name = IF title = NoText
                                    \/ Strip(title) = cards[c].title
                                 THEN NoText ELSE Strip(title),
                        !.ver = cards[c].version + 1])
    /\ UNCHANGED <<variant, scope, keyVars, dbVars, now>>

\* update_card, up to db.commit()
AppUpdateCard(s, u, b, col, c, title, token) ==
    /\ variant = "app"
    /\ CanBegin(s)
    /\ IF ~BoardExists(b)
       THEN Respond(s, "update_card", c, 404)
       ELSE IF ~ensure_role({"admin", "writer"}, get_role(b, u))
       THEN Respond(s, "update_card", c, 403)
       ELSE IF ~CardRow(c).exists \/ CardRow(c).board # b
               \/ CardRow(c).column # col
       THEN Respond(s, "update_card", c, 404)
       ELSE IF token # NoToken /\ VersionMismatch(token, cards[c].version)
       THEN Respond(s, "update_card", c, 412)
       ELSE IF title # NoText /\ Strip(title) = ""
       THEN Respond(s, "update_card", c, 422)
       ELSE /\ cards[c].version < MaxVersion
            /\ Stage(s, "update_card", c, token,
                     [NoWrite EXCEPT
                        !.name = IF title = NoText
                                    \/ Strip(title) = cards[c].title
                                 THEN NoText ELSE Strip(title),
                        !.ver = cards[c].version + 1])
    /\ UNCHANGED <<variant, scope, keyVars, dbVars, now>>

\* update_card: db.commit() writes the attributes the handler modified
AppCommitUpdateCard(s) ==
    /\ variant = "app"
    /\ Committing(s, "update_card")
    /\ LET c == ses[s].id
           w == ses[s].w
       IN  IF ~cards[c].exists
           THEN Finish(s, 500) /\ UNCHANGED cards
           ELSE /\ cards' = [cards EXCEPT
                     ![c].title = IF w.name = NoText THEN @ ELSE w.name,
                     ![c].version = w.ver]
                /\ Finish(s, 200)
    /\ UNCHANGED <<variant, scope, keyVars, boards, members, columns, invitations, now>>

\* get_card_anchors: does the anchor id name a card of board b in column col
CardAnchorOk(b, col, id) ==
    CardRow(id).exists /\ CardRow(id).board = b /\ CardRow(id).column = col

\* get_card_anchors: the sort key of a given anchor, None without one
CardAnchorKey(id) == IF id = NoId THEN None ELSE cards[id].sort_key

\* Card.__table_args__: UNIQUE(board_id, column_id, sort_key, id) is violated
\* when another row agrees with row (stored under id c) on all four columns
UqCardsOrderViolated(rows, c, row) ==
    \E d \in CardIds \ {c} :
        /\ rows[d].exists
        /\ <<rows[d].board, rows[d].column, rows[d].sort_key, d>>
             = <<row.board, row.column, row.sort_key, c>>

\* The filler symbol "m" of the retry paths
FillerM == 22

\* move_card, up to the first db.commit()
AppMoveCard(s, u, b, c, toCol, before, after, token) ==
    /\ variant = "app"
    /\ CanBegin(s)
    /\ IF ~BoardExists(b)
       THEN Respond(s, "move_card", c, 404)
       ELSE IF ~ensure_role({"admin", "writer"}, get_role(b, u))
       THEN Respond(s, "move_card", c, 403)
       ELSE IF ~CardRow(c).exists \/ CardRow(c).board # b
       THEN Respond(s, "move_card", c, 404)
       ELSE LET to_column_id == IF toCol = NoId THEN cards[c].column ELSE toCol
            IN
            IF ~ColumnRow(to_column_id).exists
               \/ ColumnRow(to_column_id).board # b
            THEN Respond(s, "move_card", c, 409)
            ELSE IF token # NoToken /\ VersionMismatch(token, cards[c].version)
            THEN Respond(s, "move_card", c, 412)
            ELSE IF before # NoId /\ ~CardAnchorOk(b, to_column_id, before)
            THEN Respond(s, "move_card", c, 422)
            ELSE IF after # NoId /\ ~CardAnchorOk(b, to_column_id, after)
            THEN Respond(s, "move_card", c, 422)
            ELSE LET new_key == lexo_midpoint(CardAnchorKey(after),
                                              CardAnchorKey(before))
                 IN  /\ cards[c].version < MaxVersion
                     /\ Stage(s, "move_card", c, token,
                              [NoWrite EXCEPT
                                 !.before = before,
                                 !.after = after,
                                 !.col = IF to_column_id = cards[c].column
                                         THEN NoId ELSE to_column_id,
                                 !.key = new_key,
                                 !.keyset = (new_key # cards[c].sort_key),
                                 !.ver = cards[c].version + 1])
    /\ UNCHANGED <<variant, scope, keyVars, dbVars, now>>

\* move_card: db.commit(); on IntegrityError db.rollback() (which expires the
\* card, so its attributes are read again from the table), then
\* sort_key = new_key + "m", version += 1 and a second db.commit()
AppCommitMoveCard(s) ==
    /\ variant = "app"
    /\ Committing(s, "move_card")
    /\ LET c == ses[s].id
           w == ses[s].w
           first == [cards[c] EXCEPT
                       !.column = IF w.col = NoId THEN @ ELSE w.col,
                       !.sort_key = IF w.keyset THEN w.key ELSE @,
                       !.version = w.ver]
           retry == [cards[c] EXCEPT
                       !.sort_key = Append(w.key, FillerM),
                       !.version = @ + 1]
       IN  IF ~cards[c].exists
           THEN Finish(s, 500) /\ UNCHANGED cards
           ELSE IF ~UqCardsOrderViolated(cards, c, first)
           THEN cards' = [cards EXCEPT ![c] = first] /\ Finish(s, 200)
           ELSE IF ~UqCardsOrderViolated(cards, c, retry)
           THEN cards' = [cards EXCEPT ![c] = retry] /\ Finish(s, 200)
           ELSE Finish(s, 500) /\ UNCHANGED cards
    /\ UNCHANGED <<variant, scope, keyVars, boards, members, columns, invitations, now>>

\* move_card's commit on a database that enforces the foreign keys of the
\* cards table (DATABASE_URL of db.py names the database; SQLite, the
\* default, enforces none): the first db.commit() also raises IntegrityError
\* when the row's column_id names no stored column.  db.rollback() then
\* discards the handler's pending column_id, sort_key and version, and only
\* sort_key = new_key + "m" and version += 1 are assigned before the second
\* db.commit()
AppCommitMoveCardEnforced(s) ==
    /\ variant = "app"
    /\ Committing(s, "move_card")
    /\ LET c == ses[s].id
           w == ses[s].w
           first == [cards[c] EXCEPT
                       !.column = IF w.col = NoId THEN @ ELSE w.col,
                       !.sort_key = IF w.keyset THEN w.key ELSE @,
                       !.version = w.ver]
           retry == [cards[c] EXCEPT
                       !.sort_key = Append(w.key, FillerM),
                       !.version = @ + 1]
           Refused(row) ==
               \/ UqCardsOrderViolated(cards, c, row)
               \/ ~columns[row.column].exists
       IN  IF ~cards[c].exists
           THEN Finish(s, 500) /\ UNCHANGED cards
           ELSE IF ~Refused(first)
           THEN cards' = [cards EXCEPT ![c] = first] /\ Finish(s, 200)
           ELSE IF ~Refused(retry)
           THEN cards' = [cards EXCEPT ![c] = retry] /\ Finish(s, 200)
           ELSE Finish(s, 500) /\ UNCHANGED cards
    /\ UNCHANGED <<variant, scope, keyVars, boards, members, columns, invitations, now>>

\* delete_card, up to db.commit()
AppDeleteCard(s, u, b, col, c, token) ==
    /\ variant = "app"
    /\ CanBegin(s)
    /\ IF ~BoardExists(b)
       THEN Respond(s, "delete_card", c, 404)
       ELSE IF ~ensure_role({"admin", "writer"}, get_role(b, u))
       THEN Respond(s, "delete_card", c, 403)
       ELSE IF ~CardRow(c).exists \/ CardRow(c).board # b
               \/ CardRow(c).column # col
       THEN Respond(s, "delete_card", c, 404)
       ELSE IF token # NoToken /\ VersionMismatch(token, cards[c].version)
       THEN Respond(s, "delete_card", c, 412)
       ELSE Stage(s, "delete_card", c, token, NoWrite)
    /\ UNCHANGED <<variant, scope, keyVars, dbVars, now>>

\* delete_card: db.commit()
AppCommitDeleteCard(s) ==
    /\ variant = "app"
    /\ Committing(s, "delete_card")
    /\ cards' = [cards EXCEPT ![ses[s].id] = NoCard]
    /\ Finish(s, 204)
    /\ UNCHANGED <<variant, scope, keyVars, boards, members, columns, invitations, now>>

----------------------------------------------------------------------------
(* src/app/main.py: creating and moving columns and cards                  *)

\* compute_column_sort_key: does the anchor id name a column of board b
ColumnAnchorOk(b, id) == ColumnRow(id).exists /\ ColumnRow(id).board = b

\* compute_column_sort_key: the sort key of a given anchor, None without one
ColumnAnchorKey(id) == IF id = NoId THEN None ELSE columns[id].sort_key

\* Mutation: the constraint is UNIQUE(board_id, sort_key), without the id
UqColumnsOrderWithoutId(rows, c, row) ==
    \E d \in ColIds \ {c} :
        /\ rows[d].exists
        /\ <<rows[d].board, rows[d].sort_key>> = <<row.board, row.sort_key>>

\* ColumnModel.__table_args__: UNIQUE(board_id, sort_key, id) is violated
\* when another row agrees with row (stored under id c) on all three columns
UqColumnsOrderViolated(rows, c, row) ==
    \E d \in ColIds \ {c} :
        /\ rows[d].exists
        /\ <<rows[d].board, rows[d].sort_key, d>>
             = <<row.board, row.sort_key, c>>

\* create_column, up to db.commit(); c is the id new_uuid() returns
AppCreateColumn(s, u, b, c, name, before, after) ==
    /\ variant = "app"
    /\ CanBegin(s)
    /\ ~columns[c].exists
    /\ IF ~BoardExists(b)
       THEN Respond(s, "create_column", c, 404)
       ELSE IF ~ensure_role({"admin", "writer"}, get_role(b, u))
       THEN Respond(s, "create_column", c, 403)
       ELSE IF Strip(name) = ""
       THEN Respond(s, "create_column", c, 422)
       ELSE IF before # NoId /\ ~ColumnAnchorOk(b, before)
       THEN Respond(s, "create_column", c, 422)
       ELSE IF after # NoId /\ ~ColumnAnchorOk(b, after)
       THEN Respond(s, "create_column", c, 422)
       ELSE Stage(s, "create_column", c, NoToken,
                  [NoWrite EXCEPT
                     !.before = before,
                     !.after = after,
                     !.board = b,
                     !.name = Strip(name),
                     !.key = lexo_midpoint(ColumnAnchorKey(after),
                                           ColumnAnchorKey(before))])
    /\ UNCHANGED <<variant, scope, keyVars, dbVars, now>>

\* Mutation: an insert that renumbers the columns already stored
AppCommitCreateColumnRenumbers(s) ==
    /\ variant = "app"
    /\ Committing(s, "create_column")
    /\ now < MaxClock
    /\ LET c == ses[s].id
           w == ses[s].w
       IN  /\ ~columns[c].exists
           /\ columns' = [k \in ColIds |->
                            IF k = c
                            THEN [exists |-> TRUE, board |-> w.board,
                                  name |-> w.name, sort_key |-> w.key,
                                  version |-> 0, created_at |-> now,
                                  updated_at |-> now]
                            ELSE IF columns[k].exists
                            THEN [columns[k] EXCEPT !.sort_key = <<k>>]
                            ELSE columns[k]]
    /\ now' = now + 1
    /\ Finish(s, 201)
    /\ UNCHANGED <<variant, scope, keyVars, boards, members, cards, invitations>>

\* create_column: db.commit() inserts the row, created_at = now_utc()
AppCommitCreateColumn(s) ==
    /\ variant = "app"
    /\ Committing(s, "create_column")
    /\ now < MaxClock
    /\ LET c == ses[s].id
           w == ses[s].w
       IN  /\ ~columns[c].exists
           /\ columns' = [columns EXCEPT ![c] =
                            [exists |-> TRUE, board |-> w.board,
                             name |-> w.name, sort_key |-> w.key,
                             version |-> 0, created_at |-> now,
                             updated_at |-> now]]
    /\ now' = now + 1
    /\ Finish(s, 201)
    /\ UNCHANGED <<variant, scope, keyVars, boards, members, cards, invitations>>

\* move_column, up to the first db.commit()
AppMoveColumn(s, u, b, c, before, after) ==
    /\ variant = "app"
    /\ CanBegin(s)
    /\ IF ~BoardExists(b)
       THEN Respond(s, "move_column", c, 404) /\ UNCHANGED now
       ELSE IF ~ensure_role({"admin", "writer"}, get_role(b, u))
       THEN Respond(s, "move_column", c, 403) /\ UNCHANGED now
       ELSE IF ~ColumnRow(c).exists \/ ColumnRow(c).board # b
       THEN Respond(s, "move_column", c, 404) /\ UNCHANGED now
       ELSE IF before # NoId /\ ~ColumnAnchorOk(b, before)
       THEN Respond(s, "move_column", c, 422) /\ UNCHANGED now
       ELSE IF after # NoId /\ ~ColumnAnchorOk(b, after)
       THEN Respond(s, "move_column", c, 422) /\ UNCHANGED now
       ELSE LET new_key == lexo_midpoint(ColumnAnchorKey(after),
                                         ColumnAnchorKey(before))
            IN  /\ now < MaxClock
                /\ Stage(s, "move_column", c, NoToken,
                         [NoWrite EXCEPT
                            !.before = before,
                            !.after = after,
                            !.key = new_key,
                            !.keyset = (new_key # columns[c].sort_key),
                            !.time = now])
                /\ now' = now + 1
    /\ UNCHANGED <<variant, scope, keyVars, dbVars>>

\* move_column: db.commit(); on IntegrityError db.rollback(), then
\* sort_key = new_key + "m" and a second db.commit()
AppCommitMoveColumn(s) ==
    /\ variant = "app"
    /\ Committing(s, "move_column")
    /\ LET c == ses[s].id
           w == ses[s].w
           first == [columns[c] EXCEPT
                       !.sort_key = IF w.keyset THEN w.key ELSE @,
                       !.updated_at = w.time]
           retry == [columns[c] EXCEPT !.sort_key = Append(w.key, FillerM)]
       IN  IF ~columns[c].exists
           THEN Finish(s, 500) /\ UNCHANGED columns
           ELSE IF ~UqColumnsOrderViolated(columns, c, first)
           THEN columns' = [columns EXCEPT ![c] = first] /\ Finish(s, 200)
           ELSE IF ~UqColumnsOrderViolated(columns, c, retry)
           THEN columns' = [columns EXCEPT ![c] = retry] /\ Finish(s, 200)
           ELSE Finish(s, 500) /\ UNCHANGED columns
    /\ UNCHANGED <<variant, scope, keyVars, boards, members, cards,
                   invitations, now>>

\* create_card, up to db.commit(); c is the id new_uuid() returns
AppCreateCard(s, u, b, col, c, title, before, after) ==
    /\ variant = "app"
    /\ CanBegin(s)
    /\ ~cards[c].exists
    /\ IF ~BoardExists(b)
       THEN Respond(s, "create_card", c, 404)
       ELSE IF ~ensure_role({"admin", "writer"}, get_role(b, u))
       THEN Respond(s, "create_card", c, 403)
       ELSE IF ~ColumnRow(col).exists \/ ColumnRow(col).board # b
       THEN Respond(s, "create_card", c, 404)
       ELSE IF title = NoText \/ Strip(title) = ""
       THEN Respond(s, "create_card", c, 422)
       ELSE IF before # NoId /\ ~CardAnchorOk(b, col, before)
       THEN Respond(s, "create_card", c, 422)
       ELSE IF after # NoId /\ ~CardAnchorOk(b, col, after)
       THEN Respond(s, "create_card", c, 422)
       ELSE Stage(s, "create_card", c, NoToken,
                  [NoWrite EXCEPT
                     !.before = before,
                     !.after = after,
                     !.board = b,
                     !.col = col,
                     !.name = Strip(title),
                     !.key = lexo_midpoint(CardAnchorKey(after),
                                           CardAnchorKey(before))])
    /\ UNCHANGED <<variant, scope, keyVars, dbVars, now>>

\* create_card: db.commit() inserts the row with version 0
AppCommitCreateCard(s) ==
    /\ variant = "app"
    /\ Committing(s, "create_card")
    /\ now < MaxClock
    /\ LET c == ses[s].id
           w == ses[s].w
       IN  /\ ~cards[c].exists
           /\ cards' = [cards EXCEPT ![c] =
                          [exists |-> TRUE, board |-> w.board,
                           column |-> w.col, title |-> w.name,
                           sort_key |-> w.key, version |-> 0,
                           created_at |-> now]]
    /\ now' = now + 1
    /\ Finish(s, 201)
    /\ UNCHANGED <<variant, scope, keyVars, boards, members, columns,
                   invitations>>

----------------------------------------------------------------------------
(* src/server.py: Handler.do_PATCH, do_DELETE and the card move of do_POST *)

\* HTTPServer handles one request at a time: every handler is one step.
\* The updates of src/server.py also write updated_at = now_iso(); no handler
\* of src/server.py reads that column to decide anything (its token is the
\* version), so the updates leave the timestamp of the row as it is.
FirstSession == CHOOSE s \in Sessions : \A t \in Sessions : s <= t

\* get_key of the card handlers: the key of a card of the board and column,
\* None for no id and for an id that selects no row
ServerCardKey(b, col, id) ==
    IF id # NoId /\ CardRow(id).exists /\ CardRow(id).board = b
       /\ CardRow(id).column = col
    THEN cards[id].sort_key
    ELSE None

\* PATCH /v1/boards/{boardId}
ServerPatchBoard(u, b, name, token) ==
    /\ variant = "server"
    /\ b \in BoardIds
    /\ LET s == FirstSession
           new_name == Strip(IF name = NoText THEN boards[b].name ELSE name)
       IN
       IF ~require_member(role_for_user(b, u), "writer")
       THEN Respond(s, "update_board", b, 403) /\ UNCHANGED boards
       ELSE IF ~boards[b].exists
       THEN Respond(s, "update_board", b, 404) /\ UNCHANGED boards
       ELSE IF token = NoToken \/ VersionMismatch(token, boards[b].version)
       THEN Respond(s, "update_board", b, 412) /\ UNCHANGED boards
       ELSE IF new_name = ""
       THEN Respond(s, "update_board", b, 422) /\ UNCHANGED boards
       ELSE /\ boards[b].version < MaxVersion
            /\ boards' = [boards EXCEPT ![b].name = new_name,
                                        ![b].version = @ + 1]
            /\ Succeed(s, "update_board", b, token, 200)
    /\ UNCHANGED <<variant, scope, keyVars, members, columns, cards, invitations, now>>

\* PATCH /v1/boards/{boardId}/columns/{columnId}
ServerPatchColumn(u, b, c, name, token) ==
    /\ variant = "server"
    /\ LET s == FirstSession
           new_name == Strip(IF name = NoText THEN ColumnRow(c).name ELSE name)
       IN
       IF ~require_member(role_for_user(b, u), "writer")
       THEN Respond(s, "rename_column", c, 403) /\ UNCHANGED columns
       ELSE IF ~ColumnRow(c).exists \/ ColumnRow(c).board # b
       THEN Respond(s, "rename_column", c, 404) /\ UNCHANGED columns
       ELSE IF token = NoToken \/ VersionMismatch(token, columns[c].version)
       THEN Respond(s, "rename_column", c, 412) /\ UNCHANGED columns
       ELSE IF new_name = ""
       THEN Respond(s, "rename_column", c, 422) /\ UNCHANGED columns
       ELSE /\ columns[c].version < MaxVersion
            /\ columns' = [columns EXCEPT ![c].name = new_name,
                                          ![c].version = @ + 1]
            /\ Succeed(s, "rename_column", c, token, 200)
    /\ UNCHANGED <<variant, scope, keyVars, boards, members, cards, invitations, now>>

\* PATCH /v1/boards/{boardId}/columns/{columnId}/cards/{cardId}
ServerPatchCard(u, b, col, c, title, token) ==
    /\ variant = "server"
    /\ LET s == FirstSession
           new_title == Strip(IF title = NoText THEN CardRow(c).title ELSE title)
       IN
       IF ~require_member(role_for_user(b, u), "writer")
       THEN Respond(s, "update_card", c, 403) /\ UNCHANGED cards
       ELSE IF ~CardRow(c).exists \/ CardRow(c).board # b
               \/ CardRow(c).column # col
       THEN Respond(s, "update_card", c, 404) /\ UNCHANGED cards
       ELSE IF token = NoToken \/ VersionMismatch(token, cards[c].version)
       THEN Respond(s, "update_card", c, 412) /\ UNCHANGED cards
       ELSE IF new_title = ""
       THEN Respond(s, "update_card", c, 422) /\ UNCHANGED cards
       ELSE /\ cards[c].version < MaxVersion
            /\ cards' = [cards EXCEPT ![c].title = new_title,
                                      ![c].version = @ + 1]
            /\ Succeed(s, "update_card", c, token, 200)
    /\ UNCHANGED <<variant, scope, keyVars, boards, members, columns, invitations, now>>

\* Mutation: the card move writes the destination column before it compares
\* the version
ServerMoveCardWritesFirst(u, b, c, toCol, before, after, token) ==
    /\ variant = "server"
    /\ LET s == FirstSession
           to_column_id == IF toCol = NoId THEN CardRow(c).column ELSE toCol
           new_key == server_midpoint(ServerCardKey(b, to_column_id, after),
                                      ServerCardKey(b, to_column_id, before))
       IN
       IF ~require_member(role_for_user(b, u), "writer")
       THEN Respond(s, "move_card", c, 403) /\ UNCHANGED cards
       ELSE IF ~CardRow(c).exists
       THEN Respond(s, "move_card", c, 404) /\ UNCHANGED cards
       ELSE IF CardRow(c).board # b
       THEN Respond(s, "move_card", c, 409) /\ UNCHANGED cards
       ELSE IF ~ColumnRow(to_column_id).exists
               \/ ColumnRow(to_column_id).board # b
       THEN Respond(s, "move_card", c, 422) /\ UNCHANGED cards
       ELSE IF token = NoToken \/ VersionMismatch(token, cards[c].version)
       THEN /\ cards' = [cards EXCEPT ![c].column = to_column_id]
            /\ Respond(s, "move_card", c, 412)
       ELSE /\ cards[c].version < MaxVersion
            /\ cards' = [cards EXCEPT ![c].column = to_column_id,
                                      ![c].sort_key = new_key,
                                      ![c].version = @ + 1]
            /\ Succeed(s, "move_card", c, token, 200)
    /\ UNCHANGED <<variant, scope, keyVars, boards, members, columns, invitations, now>>

\* POST /v1/boards/{boardId}/cards/{cardId}:move
ServerMoveCard(u, b, c, toCol, before, after, token) ==
    /\ variant = "server"
    /\ LET s == FirstSession
           to_column_id == IF toCol = NoId THEN CardRow(c).column ELSE toCol
           new_key == server_midpoint(ServerCardKey(b, to_column_id, after),
                                      ServerCardKey(b, to_column_id, before))
       IN
       IF ~require_member(role_for_user(b, u), "writer")
       THEN Respond(s, "move_card", c, 403) /\ UNCHANGED cards
       ELSE IF ~CardRow(c).exists
       THEN Respond(s, "move_card", c, 404) /\ UNCHANGED cards
       ELSE IF CardRow(c).board # b
       THEN Respond(s, "move_card", c, 409) /\ UNCHANGED cards
       ELSE IF ~ColumnRow(to_column_id).exists
               \/ ColumnRow(to_column_id).board # b
       THEN Respond(s, "move_card", c, 422) /\ UNCHANGED cards
       ELSE IF token = NoToken \/ VersionMismatch(token, cards[c].version)
       THEN Respond(s, "move_card", c, 412) /\ UNCHANGED cards
       ELSE /\ cards[c].version < MaxVersion
            /\ cards' = [cards EXCEPT ![c].column = to_column_id,
                                      ![c].sort_key = new_key,
                                      ![c].version = @ + 1]
            /\ Succeed(s, "move_card", c, token, 200)
    /\ UNCHANGED <<variant, scope, keyVars, boards, members, columns, invitations, now>>

\* DELETE /v1/boards/{boardId}.  The handler's connection never turns on
\* PRAGMA foreign_keys, so ON DELETE CASCADE does not run
ServerDeleteBoard(u, b, token) ==
    /\ variant = "server"
    /\ b \in BoardIds
    /\ LET s == FirstSession IN
       IF ~require_member(role_for_user(b, u), "admin")
       THEN Respond(s, "delete_board", b, 403) /\ UNCHANGED boards
       ELSE IF ~boards[b].exists
       THEN Respond(s, "delete_board", b, 404) /\ UNCHANGED boards
       ELSE IF token = NoToken \/ VersionMismatch(token, boards[b].version)
       THEN Respond(s, "delete_board", b, 412) /\ UNCHANGED boards
       ELSE /\ boards' = [boards EXCEPT ![b] = NoBoard]
            /\ Succeed(s, "delete_board", b, token, 204)
    /\ UNCHANGED <<variant, scope, keyVars, members, columns, cards, invitations, now>>

\* DELETE /v1/boards/{boardId}/columns/{columnId}
ServerDeleteColumn(u, b, c, token) ==
    /\ variant = "server"
    /\ LET s == FirstSession IN
       IF ~require_member(role_for_user(b, u), "writer")
       THEN Respond(s, "delete_column", c, 403) /\ UNCHANGED columns
       ELSE IF ~ColumnRow(c).exists \/ ColumnRow(c).board # b
       THEN Respond(s, "delete_column", c, 404) /\ UNCHANGED columns
       ELSE IF token = NoToken \/ VersionMismatch(token, columns[c].version)
       THEN Respond(s, "delete_column", c, 412) /\ UNCHANGED columns
       ELSE /\ columns' = [columns EXCEPT ![c] = NoColumn]
            /\ Succeed(s, "delete_column", c, token, 204)
    /\ UNCHANGED <<variant, scope, keyVars, boards, members, cards, invitations, now>>

\* DELETE /v1/boards/{boardId}/columns/{columnId}/cards/{cardId}
ServerDeleteCard(u, b, col, c, token) ==
    /\ variant = "server"
    /\ LET s == FirstSession IN
       IF ~require_member(role_for_user(b, u), "writer")
       THEN Respond(s, "delete_card", c, 403) /\ UNCHANGED cards
       ELSE IF ~CardRow(c).exists \/ CardRow(c).board # b
               \/ CardRow(c).column # col
       THEN Respond(s, "delete_card", c, 404) /\ UNCHANGED cards
       ELSE IF token = NoToken \/ VersionMismatch(token, cards[c].version)
       THEN Respond(s, "delete_card", c, 412) /\ UNCHANGED cards
       ELSE /\ cards' = [cards EXCEPT ![c] = NoCard]
            /\ Succeed(s, "delete_card", c, token, 204)
    /\ UNCHANGED <<variant, scope, keyVars, boards, members, columns, invitations, now>>

----------------------------------------------------------------------------
(* src/app/main.py: boards' members                                        *)

RoleNames == {"admin", "writer", "reader"}

\* Mutation: a guard that lets the last admin row go
LastAdminNever(b) == FALSE

\* The last admin rule of change_member_role, remove_member and leave_board:
\* the count of the board's memberships with role admin is at most 1
LastAdmin(b) ==
    Cardinality({u \in Users : members[b][u].exists
                               /\ members[b][u].role = "admin"}) <= 1

\* create_board: the handler reads nothing, its db.commit() inserts the
\* board and the owner's admin membership
AppCreateBoard(s, u, b, name) ==
    /\ variant = "app"
    /\ CanBegin(s)
    /\ ~boards[b].exists
    /\ IF Strip(name) = ""
       THEN Respond(s, "create_board", b, 422) /\ UNCHANGED <<boards, members>>
       ELSE /\ boards' = [boards EXCEPT ![b] =
                           [exists |-> TRUE, owner |-> u, name |-> Strip(name),
                            version |-> 0, updated_at |-> 0]]
            /\ members' = [members EXCEPT ![b][u] =
                           [exists |-> TRUE, role |-> "admin",
                            status |-> "active"]]
            /\ Succeed(s, "create_board", b, NoToken, 201)
    /\ UNCHANGED <<variant, scope, keyVars, columns, cards, invitations, now>>

\* invite_member, up to db.commit(); target = NoUser is the invitation by
\* e-mail
AppInviteMember(s, u, b, target, role) ==
    /\ variant = "app"
    /\ CanBegin(s)
    /\ IF ~BoardExists(b)
       THEN Respond(s, "invite_member", b, 404)
       ELSE IF ~ensure_role({"admin"}, get_role(b, u))
       THEN Respond(s, "invite_member", b, 403)
       ELSE IF role \notin RoleNames
       THEN Respond(s, "invite_member", b, 422)
       ELSE Stage(s, "invite_member", b, NoToken,
                  [NoWrite EXCEPT !.user = target, !.role = role])
    /\ UNCHANGED <<variant, scope, keyVars, dbVars, now>>

\* invite_member: db.commit() inserts the membership (uq_member rejects a
\* second row of the user: IntegrityError, 500) or the pending invitation
AppCommitInviteMember(s) ==
    /\ variant = "app"
    /\ Committing(s, "invite_member")
    /\ LET b == ses[s].id
           w == ses[s].w
       IN  IF w.user # NoUser
           THEN IF members[b][w.user].exists
                THEN Finish(s, 500) /\ UNCHANGED <<members, invitations>>
                ELSE /\ members' = [members EXCEPT ![b][w.user] =
                                      [exists |-> TRUE, role |-> w.role,
                                       status |-> "active"]]
                     /\ Finish(s, 201)
                     /\ UNCHANGED invitations
           ELSE /\ \E i \in InvIds :
                      /\ ~invitations[i].exists
                      /\ invitations' = [invitations EXCEPT ![i] =
                                           [exists |-> TRUE, board |-> b,
                                            role |-> w.role,
                                            status |-> "pending",
                                            token |-> i]]
                /\ Finish(s, 201)
                /\ UNCHANGED members
    /\ UNCHANGED <<variant, scope, keyVars, boards, columns, cards, now>>

\* accept_invitation, up to db.commit(); token names the invitation it was
\* returned for
AppAcceptInvitation(s, u, token) ==
    /\ variant = "app"
    /\ CanBegin(s)
    /\ IF token \in InvIds /\ invitations[token].exists
          /\ invitations[token].status = "pending"
       THEN Stage(s, "accept_invitation", token, NoToken,
                  [NoWrite EXCEPT !.user = u])
       ELSE Respond(s, "accept_invitation", token, 404)
    /\ UNCHANGED <<variant, scope, keyVars, dbVars, now>>

\* accept_invitation: db.commit() inserts the reader membership and marks
\* the invitation accepted, or fails on uq_member with neither done
AppCommitAcceptInvitation(s) ==
    /\ variant = "app"
    /\ Committing(s, "accept_invitation")
    /\ LET i == ses[s].id
           b == invitations[i].board
           u == ses[s].w.user
       IN  IF members[b][u].exists
           THEN Finish(s, 500) /\ UNCHANGED <<members, invitations>>
           ELSE /\ members' = [members EXCEPT ![b][u] =
                                 [exists |-> TRUE, role |-> "reader",
                                  status |-> "active"]]
                /\ invitations' = [invitations EXCEPT ![i].status = "accepted"]
                /\ Finish(s, 200)
    /\ UNCHANGED <<variant, scope, keyVars, boards, columns, cards, now>>

\* Mutation: change_member_role without the last admin rule
AppChangeMemberRoleUnguarded(s, u, b, target, role) ==
    /\ variant = "app"
    /\ CanBegin(s)
    /\ IF ~BoardExists(b)
       THEN Respond(s, "change_member_role", b, 404)
       ELSE IF ~ensure_role({"admin"}, get_role(b, u))
       THEN Respond(s, "change_member_role", b, 403)
       ELSE IF ~members[b][target].exists
       THEN Respond(s, "change_member_role", b, 404)
       ELSE IF role \notin RoleNames
       THEN Respond(s, "change_member_role", b, 422)
       ELSE Stage(s, "change_member_role", b, NoToken,
                  [NoWrite EXCEPT
                     !.user = target,
                     !.role = IF role = members[b][target].role
                              THEN NoRole ELSE role])
    /\ UNCHANGED <<variant, scope, keyVars, dbVars, now>>

\* change_member_role, up to db.commit()
AppChangeMemberRole(s, u, b, target, role) ==
    /\ variant = "app"
    /\ CanBegin(s)
    /\ IF ~BoardExists(b)
       THEN Respond(s, "change_member_role", b, 404)
       ELSE IF ~ensure_role({"admin"}, get_role(b, u))
       THEN Respond(s, "change_member_role", b, 403)
       ELSE IF ~members[b][target].exists
       THEN Respond(s, "change_member_role", b, 404)
       ELSE IF role \notin RoleNames
       THEN Respond(s, "change_member_role", b, 422)
       ELSE IF members[b][target].role = "admin" /\ role # "admin"
               /\ LastAdmin(b)
       THEN Respond(s, "change_member_role", b, 409)
       ELSE Stage(s, "change_member_role", b, NoToken,
                  [NoWrite EXCEPT
                     !.user = target,
                     !.role = IF role = members[b][target].role
                              THEN NoRole ELSE role])
    /\ UNCHANGED <<variant, scope, keyVars, dbVars, now>>

\* change_member_role: db.commit() updates the row if the role changed; the
\* UPDATE of a row deleted meanwhile raises StaleDataError (500)
AppCommitChangeMemberRole(s) ==
    /\ variant = "app"
    /\ Committing(s, "change_member_role")
    /\ LET b == ses[s].id
           w == ses[s].w
       IN  IF w.role = NoRole
           THEN Finish(s, 200) /\ UNCHANGED members
           ELSE IF ~members[b][w.user].exists
           THEN Finish(s, 500) /\ UNCHANGED members
           ELSE /\ members' = [members EXCEPT ![b][w.user].role = w.role]
                /\ Finish(s, 200)
    /\ UNCHANGED <<variant, scope, keyVars, boards, columns, cards,
                   invitations, now>>

\* remove_member, up to db.commit()
AppRemoveMember(s, u, b, target) ==
    /\ variant = "app"
    /\ CanBegin(s)
    /\ IF ~BoardExists(b)
       THEN Respond(s, "remove_member", b, 404)
       ELSE IF ~ensure_role({"admin"}, get_role(b, u))
       THEN Respond(s, "remove_member", b, 403)
       ELSE IF ~members[b][target].exists
       THEN Respond(s, "remove_member", b, 404)
       ELSE IF members[b][target].role = "admin" /\ LastAdmin(b)
       THEN Respond(s, "remove_member", b, 409)
       ELSE Stage(s, "remove_member", b, NoToken,
                  [NoWrite EXCEPT !.user = target])
    /\ UNCHANGED <<variant, scope, keyVars, dbVars, now>>

\* remove_member: db.commit() deletes the row (a row already gone only
\* raises a warning)
AppCommitRemoveMember(s) ==
    /\ variant = "app"
    /\ Committing(s, "remove_member")
    /\ members' = [members EXCEPT ![ses[s].id][ses[s].w.user] = NoMember]
    /\ Finish(s, 204)
    /\ UNCHANGED <<variant, scope, keyVars, boards, columns, cards,
                   invitations, now>>

\* Mutation: transfer_ownership without the lookup of the new owner's
\* membership
AppTransferOwnershipAnyUser(s, u, b, new_owner) ==
    /\ variant = "app"
    /\ CanBegin(s)
    /\ IF ~BoardExists(b)
       THEN Respond(s, "transfer_ownership", b, 404)
       ELSE IF ~ensure_role({"admin"}, get_role(b, u))
       THEN Respond(s, "transfer_ownership", b, 403)
       ELSE IF new_owner = NoUser
       THEN Respond(s, "transfer_ownership", b, 422)
       ELSE Stage(s, "transfer_ownership", b, NoToken,
                  [NoWrite EXCEPT !.user = IF new_owner = boards[b].owner
                                           THEN NoUser ELSE new_owner])
    /\ UNCHANGED <<variant, scope, keyVars, dbVars, now>>

\* transfer_ownership, up to db.commit()
AppTransferOwnership(s, u, b, new_owner) ==
    /\ variant = "app"
    /\ CanBegin(s)
    /\ IF ~BoardExists(b)
       THEN Respond(s, "transfer_ownership", b, 404)
       ELSE IF ~ensure_role({"admin"}, get_role(b, u))
       THEN Respond(s, "transfer_ownership", b, 403)
       ELSE IF new_owner = NoUser
       THEN Respond(s, "transfer_ownership", b, 422)
       ELSE IF ~members[b][new_owner].exists
       THEN Respond(s, "transfer_ownership", b, 422)
       ELSE Stage(s, "transfer_ownership", b, NoToken,
                  [NoWrite EXCEPT !.user = IF new_owner = boards[b].owner
                                           THEN NoUser ELSE new_owner])
    /\ UNCHANGED <<variant, scope, keyVars, dbVars, now>>

\* transfer_ownership: db.commit() updates boards.owner if it changed
AppCommitTransferOwnership(s) ==
    /\ variant = "app"
    /\ Committing(s, "transfer_ownership")
    /\ LET b == ses[s].id
           w == ses[s].w
       IN  IF w.user = NoUser
           THEN Finish(s, 200) /\ UNCHANGED boards
           ELSE IF ~boards[b].exists
           THEN Finish(s, 500) /\ UNCHANGED boards
           ELSE /\ boards' = [boards EXCEPT ![b].owner = w.user]
                /\ Finish(s, 200)
    /\ UNCHANGED <<variant, scope, keyVars, members, columns, cards,
                   invitations, now>>

\* leave_board, up to db.commit()
AppLeaveBoard(s, u, b) ==
    /\ variant = "app"
    /\ CanBegin(s)
    /\ IF ~BoardExists(b)
       THEN Respond(s, "leave_board", b, 404)
       ELSE IF ~members[b][u].exists
       THEN Respond(s, "leave_board", b, 204)
       ELSE IF members[b][u].role = "admin" /\ LastAdmin(b)
       THEN Respond(s, "leave_board", b, 409)
       ELSE Stage(s, "leave_board", b, NoToken, [NoWrite EXCEPT !.user = u])
    /\ UNCHANGED <<variant, scope, keyVars, dbVars, now>>

\* leave_board: db.commit() deletes the caller's row
AppCommitLeaveBoard(s) ==
    /\ variant = "app"
    /\ Committing(s, "leave_board")
    /\ members' = [members EXCEPT ![ses[s].id][ses[s].w.user] = NoMember]
    /\ Finish(s, 204)
    /\ UNCHANGED <<variant, scope, keyVars, boards, columns, cards,
                   invitations, now>>

----------------------------------------------------------------------------
(* src/server.py: POST /v1/boards and POST /v1/boards/{boardId}:leave      *)

\* POST /v1/boards: the board with version 1 and no membership of the owner
ServerCreateBoard(u, b, name) ==
    /\ variant = "server"
    /\ ~boards[b].exists
    /\ LET s == FirstSession
           new_name == Strip(IF name = NoText THEN "" ELSE name)
       IN
       IF new_name = ""
       THEN Respond(s, "create_board", b, 422) /\ UNCHANGED boards
       ELSE /\ boards' = [boards EXCEPT ![b] =
                           [exists |-> TRUE, owner |-> u, name |-> new_name,
                            version |-> 1, updated_at |-> 0]]
            /\ Succeed(s, "create_board", b, NoToken, 201)
    /\ UNCHANGED <<variant, scope, keyVars, members, columns, cards,
                   invitations, now>>

\* POST /v1/boards/{boardId}:leave
ServerLeave(u, b) ==
    /\ variant = "server"
    /\ LET s == FirstSession
           role == role_for_user(b, u)
           admin_count == Cardinality({m \in Users :
                              /\ members[b][m].exists
                              /\ members[b][m].role = "admin"
                              /\ members[b][m].status = "active"})
       IN
       IF role = NoRole
       THEN Respond(s, "leave_board", b, 404) /\ UNCHANGED members
       ELSE IF role = "admin" /\ admin_count = 0
       THEN Respond(s, "leave_board", b, 409) /\ UNCHANGED members
       ELSE /\ members' = [members EXCEPT ![b][u] = NoMember]
            /\ Succeed(s, "leave_board", b, NoToken, 204)
    /\ UNCHANGED <<variant, scope, keyVars, boards, columns, cards,
                   invitations, now>>

----------------------------------------------------------------------------
(* src/server.py: creating columns and cards, moving columns               *)

\* get_key of the column handlers: the key of a column of the board, None
\* for no id and for an id that selects no row
ServerColumnKey(b, id) ==
    IF id # NoId /\ ColumnRow(id).exists /\ ColumnRow(id).board = b
    THEN columns[id].sort_key
    ELSE None

\* POST /v1/boards/{boardId}/columns; c is the id gen_uuid() returns
ServerCreateColumn(u, b, c, name, before, after) ==
    /\ variant = "server"
    /\ ~columns[c].exists
    /\ LET s == FirstSession
           new_name == Strip(IF name = NoText THEN "" ELSE name)
           left_key == ServerColumnKey(b, after)
           right_key == ServerColumnKey(b, before)
       IN
       IF ~require_member(role_for_user(b, u), "writer")
       THEN Respond(s, "create_column", c, 403) /\ UNCHANGED <<columns, now>>
       ELSE IF new_name = ""
       THEN Respond(s, "create_column", c, 422) /\ UNCHANGED <<columns, now>>
       ELSE /\ now < MaxClock
            /\ columns' = [columns EXCEPT ![c] =
                             [exists |-> TRUE, board |-> b, name |-> new_name,
                              sort_key |-> server_midpoint(left_key, right_key),
                              version |-> 1, created_at |-> now,
                              updated_at |-> now]]
            /\ now' = now + 1
            /\ Succeed(s, "create_column", c, NoToken, 201)
    /\ UNCHANGED <<variant, scope, keyVars, boards, members, cards, invitations>>

\* POST /v1/boards/{boardId}/columns/{columnId}/cards
ServerCreateCard(u, b, col, c, title, before, after) ==
    /\ variant = "server"
    /\ ~cards[c].exists
    /\ LET s == FirstSession
           new_title == Strip(IF title = NoText THEN "" ELSE title)
           left_key == ServerCardKey(b, col, after)
           right_key == ServerCardKey(b, col, before)
       IN
       IF ~require_member(role_for_user(b, u), "writer")
       THEN Respond(s, "create_card", c, 403) /\ UNCHANGED <<cards, now>>
       ELSE IF ~ColumnRow(col).exists \/ ColumnRow(col).board # b
       THEN Respond(s, "create_card", c, 404) /\ UNCHANGED <<cards, now>>
       ELSE IF new_title = ""
       THEN Respond(s, "create_card", c, 422) /\ UNCHANGED <<cards, now>>
       ELSE /\ now < MaxClock
            /\ cards' = [cards EXCEPT ![c] =
                           [exists |-> TRUE, board |-> b, column |-> col,
                            title |-> new_title,
                            sort_key |-> server_midpoint(left_key, right_key),
                            version |-> 1, created_at |-> now]]
            /\ now' = now + 1
            /\ Succeed(s, "create_card", c, NoToken, 201)
    /\ UNCHANGED <<variant, scope, keyVars, boards, members, columns,
                   invitations>>

\* POST /v1/boards/{boardId}/columns/{columnId}:move
ServerMoveColumn(u, b, c, before, after) ==
    /\ variant = "server"
    /\ LET s == FirstSession
           left_key == ServerColumnKey(b, after)
           right_key == ServerColumnKey(b, before)
       IN
       IF ~require_member(role_for_user(b, u), "writer")
       THEN Respond(s, "move_column", c, 403) /\ UNCHANGED columns
       ELSE IF ~ColumnRow(c).exists \/ ColumnRow(c).board # b
       THEN Respond(s, "move_column", c, 404) /\ UNCHANGED columns
       ELSE /\ columns[c].version < MaxVersion
            /\ columns' = [columns EXCEPT
                             ![c].sort_key = server_midpoint(left_key, right_key),
                             ![c].version = @ + 1]
            /\ Succeed(s, "move_column", c, NoToken, 200)
    /\ UNCHANGED <<variant, scope, keyVars, boards, members, cards,
                   invitations, now>>

----------------------------------------------------------------------------
(* src/app/storage.py: the in-memory Storage.  Its methods take the ids of *)
(* the anchors and look them up in the board's dicts: an id that is not    *)
(* there raises KeyError before anything is changed (recorded as 500).     *)

\* board.columns[id] is there
StorageHasColumn(b, id) == ColumnRow(id).exists /\ ColumnRow(id).board = b

\* lookup[id] is there: the cards of the column
StorageHasCard(b, col, id) ==
    CardRow(id).exists /\ CardRow(id).board = b /\ CardRow(id).column = col

\* Storage.create_column
StorageCreateColumn(b, c, name, before, after) ==
    /\ variant = "storage"
    /\ BoardExists(b)
    /\ ~columns[c].exists
    /\ LET s == FirstSession
           left == IF before # NoId THEN columns[before].sort_key ELSE None
           right == IF after # NoId THEN columns[after].sort_key ELSE None
       IN
       IF \/ before # NoId /\ ~StorageHasColumn(b, before)
          \/ after # NoId /\ ~StorageHasColumn(b, after)
       THEN Respond(s, "create_column", c, 500)
            /\ UNCHANGED <<boards, columns, now>>
       ELSE /\ now < MaxClock
            /\ columns' = [columns EXCEPT ![c] =
                             [exists |-> TRUE, board |-> b,
                              name |-> Strip(name),
                              sort_key |-> midpoint(left, right),
                              version |-> 1, created_at |-> now,
                              updated_at |-> now]]
            /\ boards' = [boards EXCEPT ![b].version = @ + 1,
                                        ![b].updated_at = now]
            /\ now' = now + 1
            /\ Succeed(s, "create_column", c, NoToken, 201)
    /\ UNCHANGED <<variant, scope, keyVars, members, cards, invitations>>

\* Storage.move_column
StorageMoveColumn(b, c, before, after) ==
    /\ variant = "storage"
    /\ BoardExists(b)
    /\ StorageHasColumn(b, c)
    /\ LET s == FirstSession
           left == IF before # NoId THEN columns[before].sort_key ELSE None
           right == IF after # NoId THEN columns[after].sort_key ELSE None
       IN
       IF \/ before # NoId /\ ~StorageHasColumn(b, before)
          \/ after # NoId /\ ~StorageHasColumn(b, after)
       THEN Respond(s, "move_column", c, 500)
            /\ UNCHANGED <<boards, columns, now>>
       ELSE /\ now < MaxClock
            /\ columns' = [columns EXCEPT
                             ![c].sort_key = midpoint(left, right),
                             ![c].updated_at = now,
                             ![c].version = @ + 1]
            /\ boards' = [boards EXCEPT ![b].version = @ + 1,
                                        ![b].updated_at = now]
            /\ now' = now + 1
            /\ Succeed(s, "move_column", c, NoToken, 200)
    /\ UNCHANGED <<variant, scope, keyVars, members, cards, invitations>>

\* Storage.create_card
StorageCreateCard(b, col, c, title, before, after) ==
    /\ variant = "storage"
    /\ BoardExists(b)
    /\ StorageHasColumn(b, col)
    /\ ~cards[c].exists
    /\ LET s == FirstSession
           left == IF before # NoId THEN cards[before].sort_key ELSE None
           right == IF after # NoId THEN cards[after].sort_key ELSE None
       IN
       IF \/ before # NoId /\ ~StorageHasCard(b, col, before)
          \/ after # NoId /\ ~StorageHasCard(b, col, after)
       THEN Respond(s, "create_card", c, 500)
            /\ UNCHANGED <<boards, columns, cards, now>>
       ELSE /\ now < MaxClock
            /\ cards' = [cards EXCEPT ![c] =
                           [exists |-> TRUE, board |-> b, column |-> col,
                            title |-> Strip(title),
                            sort_key |-> midpoint(left, right),
                            version |-> 1, created_at |-> now]]
            /\ boards' = [boards EXCEPT ![b].version = @ + 1,
                                        ![b].updated_at = now]
            /\ columns' = [columns EXCEPT ![col].updated_at = now,
                                          ![col].version = @ + 1]
            /\ now' = now + 1
            /\ Succeed(s, "create_card", c, NoToken, 201)
    /\ UNCHANGED <<variant, scope, keyVars, members, invitations>>

\* Storage.move_card
StorageMoveCard(b, c, toCol, before, after) ==
    /\ variant = "storage"
    /\ BoardExists(b)
    /\ CardRow(c).exists /\ CardRow(c).board = b
    /\ StorageHasColumn(b, toCol)
    /\ LET s == FirstSession
           left == IF before # NoId THEN cards[before].sort_key ELSE None
           right == IF after # NoId THEN cards[after].sort_key ELSE None
       IN
       IF \/ before # NoId /\ ~StorageHasCard(b, toCol, before)
          \/ after # NoId /\ ~StorageHasCard(b, toCol, after)
       THEN Respond(s, "move_card", c, 500)
            /\ UNCHANGED <<boards, cards, now>>
       ELSE /\ now < MaxClock
            /\ cards' = [cards EXCEPT ![c].sort_key = midpoint(left, right),
                                      ![c].column = toCol,
                                      ![c].version = @ + 1]
            /\ boards' = [boards EXCEPT ![b].version = @ + 1,
                                        ![b].updated_at = now]
            /\ now' = now + 1
            /\ Succeed(s, "move_card", c, NoToken, 200)
    /\ UNCHANGED <<variant, scope, keyVars, members, columns, invitations>>

\* Bounds of the key-space check: keys of up to MaxKeyLen symbols drawn from
\* KeySymbols (the extremes, adjacent values and values two apart)
MaxKeyLen == 2
KeySymbols == {0, 1, 2, 17, 34, 35}
InputKeys == UNION {[1..n -> KeySymbols] : n \in 1..MaxKeyLen}

\* The service tables before anything is created
EmptyService ==
    /\ boards = [b \in BoardIds |-> NoBoard]
    /\ members = [b \in BoardIds |-> [u \in Users |-> NoMember]]
    /\ columns = [c \in ColIds |-> NoColumn]
    /\ cards = [c \in CardIds |-> NoCard]
    /\ invitations = [i \in InvIds |-> NoInvitation]
    /\ now = 1
    /\ ses = [s \in Sessions |-> Idle]

KeyIdle ==
    kl = None /\ kr = None /\ kout = None /\ kpc = "idle" /\ kseq = <<>>

InitKey ==
    /\ variant = "keys"
    /\ scope = "key"
    /\ kl \in (InputKeys \cup {None})
    /\ kr \in (InputKeys \cup {None})
    /\ kout = None
    /\ kpc = "call"
    /\ kseq = <<>>
    /\ EmptyService

CallMidpoint ==
    /\ kpc = "call"
    /\ kout' = midpoint(kl, kr)
    /\ kpc' = "lexorank"
    /\ UNCHANGED <<variant, scope, kl, kr, kseq, svcVars>>

CallLexoMidpoint ==
    /\ kpc = "call"
    /\ kout' = lexo_midpoint(kl, kr)
    /\ kpc' = "utils"
    /\ UNCHANGED <<variant, scope, kl, kr, kseq, svcVars>>

CallServerMidpoint ==
    /\ kpc = "call"
    /\ kout' = server_midpoint(kl, kr)
    /\ kpc' = "server"
    /\ UNCHANGED <<variant, scope, kl, kr, kseq, svcVars>>

NextKey == CallMidpoint \/ CallLexoMidpoint \/ CallServerMidpoint

SpecKey == InitKey /\ [][NextKey]_vars

\* Inserting always at the very start: the first key is midpoint(None, None),
\* every further key midpoint(None, k) of the key k returned last, all by
\* the same copy of the algorithm; at most MaxInserts keys
MaxInserts == 40

InitStart ==
    /\ variant = "keys"
    /\ scope = "start"
    /\ kl = None
    /\ kr = None
    /\ kout = None
    /\ kpc = "call"
    /\ kseq = <<>>
    /\ EmptyService

StartMidpoint ==
    /\ kpc \in {"call", "lexorank"}
    /\ Len(kseq) < MaxInserts
    /\ kr' = kout
    /\ kout' = midpoint(None, kout)
    /\ kseq' = Append(kseq, kout')
    /\ kpc' = "lexorank"
    /\ UNCHANGED <<variant, scope, kl, svcVars>>

StartLexoMidpoint ==
    /\ kpc \in {"call", "utils"}
    /\ Len(kseq) < MaxInserts
    /\ kr' = kout
    /\ kout' = lexo_midpoint(None, kout)
    /\ kseq' = Append(kseq, kout')
    /\ kpc' = "utils"
    /\ UNCHANGED <<variant, scope, kl, svcVars>>

StartServerMidpoint ==
    /\ kpc \in {"call", "server"}
    /\ Len(kseq) < MaxInserts
    /\ kr' = kout
    /\ kout' = server_midpoint(None, kout)
    /\ kseq' = Append(kseq, kout')
    /\ kpc' = "server"
    /\ UNCHANGED <<variant, scope, kl, svcVars>>

NextStart == StartMidpoint \/ StartLexoMidpoint \/ StartServerMidpoint

SpecStart == InitStart /\ [][NextStart]_vars

----------------------------------------------------------------------------
(* Optimistic concurrency: the update, delete and move handlers of          *)
(* src/app/main.py (two sessions, interleaved) and of src/server.py         *)

\* The columns the requests of these specifications name
StepColumns == {1, 2}

\* The tokens a client sends: none, a version number, an ETag of a timestamp
VersionTokens == {NoToken} \cup {IfMatchVersion(n) : n \in 0..MaxVersion}
TitleInputs == NameInputs \cup {NoText}

\* The first version of a row: CardModel.version defaults to 0 (db.py),
\* server.py inserts version 1
FirstVersion(v) == IF v = "server" THEN 1 ELSE 0

\* A board of u1 with columns "h" and "q" and a card in each, as left by
\* create_board, two create_column and two create_card (and, in the app,
\* by u2 and u3 joining as writer and reader); server.py has no operation
\* that inserts a membership
Populated ==
    /\ KeyIdle
    /\ boards = [b \in BoardIds |->
                   [exists |-> TRUE, owner |-> "u1", name |-> "a",
                    version |-> FirstVersion(variant), updated_at |-> 0]]
    /\ members = [b \in BoardIds |-> [u \in Users |->
                   IF variant = "server" THEN NoMember
                   ELSE [exists |-> TRUE, status |-> "active",
                         role |-> CASE u = "u1" -> "admin"
                                    [] u = "u2" -> "writer"
                                    [] OTHER -> "reader"]]]
    /\ columns = [c \in ColIds |->
                   IF c \in StepColumns
                   THEN [exists |-> TRUE, board |-> 1, name |-> "a",
                         sort_key |-> IF c = 1 THEN <<17>> ELSE <<26>>,
                         version |-> FirstVersion(variant), created_at |-> 0,
                         updated_at |-> 0]
                   ELSE NoColumn]
    /\ cards = [c \in CardIds |->
                   [exists |-> TRUE, board |-> 1, column |-> c, title |-> "a",
                    sort_key |-> <<17>>,
                    version |-> FirstVersion(variant), created_at |-> 0]]
    /\ invitations = [i \in InvIds |-> NoInvitation]
    /\ now = 1
    /\ ses = [s \in Sessions |-> Idle]

InitCard ==
    /\ variant \in {"app", "server"}
    /\ scope = "card"
    /\ Populated

\* The requests of the check: the owner u1 and the reader u3 call, card 1 is
\* the card under change and card 2 the anchor of its moves
Callers == {"u1", "u3"}
TargetCards == {1}
AnchorCards == {NoId, 2}

AppCardStep ==
    \E s \in Sessions :
        \/ \E u \in Callers, b \in BoardIds, col \in StepColumns, c \in TargetCards,
              token \in VersionTokens :
              \/ \E title \in TitleInputs :
                    AppUpdateCard(s, u, b, col, c, title, token)
              \/ AppDeleteCard(s, u, b, col, c, token)
        \/ \E u \in Callers, b \in BoardIds, c \in TargetCards,
              token \in VersionTokens, toCol \in {NoId, 2},
              after \in AnchorCards, before \in {NoId} :
              AppMoveCard(s, u, b, c, toCol, before, after, token)
        \/ AppCommitUpdateCard(s)
        \/ AppCommitMoveCard(s)
        \/ AppCommitDeleteCard(s)

ServerCardStep ==
    \E u \in Callers, b \in BoardIds, c \in TargetCards,
       token \in VersionTokens :
        \/ \E col \in StepColumns, title \in TitleInputs :
              ServerPatchCard(u, b, col, c, title, token)
        \/ \E toCol \in {NoId, 2}, after \in AnchorCards, before \in {NoId} :
              ServerMoveCard(u, b, c, toCol, before, after, token)
        \/ \E col \in StepColumns : ServerDeleteCard(u, b, col, c, token)

NextCard == AppCardStep \/ ServerCardStep

SpecCard == InitCard /\ [][NextCard]_vars

----------------------------------------------------------------------------
(* Moves of a card in src/app/main.py while its target column is deleted,  *)
(* on a database that enforces foreign keys                                *)

InitEnforced ==
    /\ variant = "app"
    /\ scope = "enforced"
    /\ Populated

NextEnforced ==
    \E s \in Sessions :
        \/ \E u \in Callers, b \in BoardIds, c \in TargetCards,
              token \in VersionTokens, toCol \in {NoId, 2},
              after \in AnchorCards :
              AppMoveCard(s, u, b, c, toCol, NoId, after, token)
        \/ \E u \in Callers, b \in BoardIds, c \in StepColumns :
              AppDeleteColumn(s, u, b, c, NoToken)
        \/ AppCommitMoveCardEnforced(s)
        \/ AppCommitDeleteColumn(s)

SpecEnforced == InitEnforced /\ [][NextEnforced]_vars

\* One request at a time, on every kind of entity: the handlers of
\* src/app/main.py run to their commit before the next request begins, those
\* of src/server.py are single steps.  A run addresses the board, its columns
\* or its cards.
InitOcc ==
    /\ variant \in {"app", "server"}
    /\ scope \in {"board", "column", "card"}
    /\ Populated

AppOccBoardStep ==
    /\ scope = "board"
    /\ \E u \in Callers, b \in BoardIds :
          LET s == FirstSession IN
          \/ \E token \in ({NoToken} \cup {etag_from(t) : t \in 0..MaxClock}) :
                \/ \E name \in NameInputs :
                      AppUpdateBoard(s, u, b, name, token)
                \/ AppDeleteBoard(s, u, b, token)
          \/ AppCommitUpdateBoard(s)
          \/ AppCommitDeleteBoard(s)

AppOccColumnStep ==
    /\ scope = "column"
    /\ \E u \in Callers, b \in BoardIds, c \in StepColumns :
          LET s == FirstSession IN
          \/ \E token \in ({NoToken} \cup {etag_from(t) : t \in 0..MaxClock}) :
                \/ \E name \in NameInputs :
                      AppRenameColumn(s, u, b, c, name, token)
                \/ AppDeleteColumn(s, u, b, c, token)
          \/ AppCommitRenameColumn(s)
          \/ AppCommitDeleteColumn(s)

AppOccCardStep ==
    /\ scope = "card"
    /\ \E u \in Callers, b \in BoardIds :
          LET s == FirstSession IN
          \/ \E token \in VersionTokens, col \in StepColumns, c \in TargetCards :
                \/ \E title \in TitleInputs :
                      AppUpdateCard(s, u, b, col, c, title, token)
                \/ \E after \in AnchorCards, before \in AnchorCards :
                      AppMoveCard(s, u, b, c, col, before, after, token)
                \/ AppDeleteCard(s, u, b, col, c, token)
          \/ AppCommitUpdateCard(s)
          \/ AppCommitMoveCard(s)
          \/ AppCommitDeleteCard(s)

ServerOccBoardStep ==
    /\ scope = "board"
    /\ \E u \in Callers, b \in BoardIds, token \in VersionTokens :
          \/ \E name \in TitleInputs : ServerPatchBoard(u, b, name, token)
          \/ ServerDeleteBoard(u, b, token)

ServerOccColumnStep ==
    /\ scope = "column"
    /\ \E u \in Callers, b \in BoardIds, token \in VersionTokens, c \in StepColumns :
          \/ \E name \in TitleInputs : ServerPatchColumn(u, b, c, name, token)
          \/ ServerDeleteColumn(u, b, c, token)

ServerOccCardStep ==
    /\ scope = "card"
    /\ \E u \in Callers, b \in BoardIds, token \in VersionTokens,
          col \in StepColumns, c \in TargetCards :
          \/ \E title \in TitleInputs :
                ServerPatchCard(u, b, col, c, title, token)
          \/ \E after \in AnchorCards, before \in AnchorCards :
                ServerMoveCard(u, b, c, col, before, after, token)
          \/ ServerDeleteCard(u, b, col, c, token)

NextOcc ==
    \/ AppOccBoardStep
    \/ AppOccColumnStep
    \/ AppOccCardStep
    \/ ServerOccBoardStep
    \/ ServerOccColumnStep
    \/ ServerOccCardStep

SpecOcc == InitOcc /\ [][NextOcc]_vars

----------------------------------------------------------------------------
(* Membership: the handlers of src/app/main.py, interleaved between two    *)
(* sessions, and those of src/server.py, from an empty database            *)

\* The users that call and are invited, the roles and tokens they send
MemberUsers == {"u1", "u2"}
Creators == {"u1"}

InitMember ==
    /\ variant \in {"app", "server"}
    /\ scope = "member"
    /\ KeyIdle
    /\ EmptyService

\* Boards are created and members invited through the first session; both
\* sessions accept invitations, change roles, remove members, transfer
\* ownership and leave
AppMemberStep ==
    \/ \E u \in Creators, b \in BoardIds, name \in NameInputs :
          AppCreateBoard(FirstSession, u, b, name)
    \/ \E u \in MemberUsers, b \in BoardIds :
          \/ \E target \in MemberUsers, role \in (RoleNames \cup {NoRole}) :
                AppInviteMember(FirstSession, u, b, target, role)
          \/ \E role \in {"writer"} :
                AppInviteMember(FirstSession, u, b, NoUser, role)
    \/ AppCommitInviteMember(FirstSession)
    \/ \E s \in Sessions :
          \/ \E u \in Users, token \in InvIds :
                AppAcceptInvitation(s, u, token)
          \/ AppCommitAcceptInvitation(s)
          \/ \E u \in MemberUsers, b \in BoardIds :
                \/ \E target \in MemberUsers, role \in (RoleNames \cup {NoRole}) :
                      AppChangeMemberRole(s, u, b, target, role)
                \/ \E target \in MemberUsers : AppRemoveMember(s, u, b, target)
                \/ \E new_owner \in MemberUsers \cup {NoUser} :
                      AppTransferOwnership(s, u, b, new_owner)
                \/ AppLeaveBoard(s, u, b)
          \/ AppCommitChangeMemberRole(s)
          \/ AppCommitRemoveMember(s)
          \/ AppCommitTransferOwnership(s)
          \/ AppCommitLeaveBoard(s)

ServerMemberStep ==
    \/ \E u \in Creators, b \in BoardIds, name \in NameInputs :
          ServerCreateBoard(u, b, name)
    \/ \E u \in MemberUsers, b \in BoardIds : ServerLeave(u, b)

NextMember == AppMemberStep \/ ServerMemberStep

SpecMember == InitMember /\ [][NextMember]_vars

----------------------------------------------------------------------------
(* Ordering: creating and moving columns and cards by anchors, one request *)
(* at a time, in src/app/main.py, src/server.py and src/app/storage.py     *)

\* A board of u1 with column 1 and card 1 in it, both at key "h", as left
\* by create_board, create_column and create_card without anchors.  The
\* Storage counts every operation in board.version and a new card in
\* column.version.
InitOrder ==
    /\ variant \in {"app", "server", "storage"}
    /\ scope \in {"columns", "cards"}
    /\ KeyIdle
    /\ boards = [b \in BoardIds |->
                   [exists |-> TRUE, owner |-> "u1", name |-> "a",
                    version |-> CASE variant = "app" -> 0
                                  [] variant = "server" -> 1
                                  [] OTHER -> 3,
                    updated_at |-> 0]]
    /\ members = [b \in BoardIds |-> [u \in Users |->
                   IF variant # "server" /\ u = "u1"
                   THEN [exists |-> TRUE, role |-> "admin", status |-> "active"]
                   ELSE NoMember]]
    /\ columns = [c \in ColIds |->
                   IF c = 1
                   THEN [exists |-> TRUE, board |-> 1, name |-> "a",
                         sort_key |-> <<17>>,
                         version |-> CASE variant = "app" -> 0
                                       [] variant = "server" -> 1
                                       [] OTHER -> 2,
                         created_at |-> 0, updated_at |-> 0]
                   ELSE NoColumn]
    /\ cards = [c \in CardIds |->
                   IF c = 1
                   THEN [exists |-> TRUE, board |-> 1, column |-> 1,
                         title |-> "a", sort_key |-> <<17>>,
                         version |-> IF variant = "app" THEN 0 ELSE 1,
                         created_at |-> 0]
                   ELSE NoCard]
    /\ invitations = [i \in InvIds |-> NoInvitation]
    /\ now = 1
    /\ ses = [s \in Sessions |-> Idle]

ColumnAnchors == StepColumns \cup {NoId}
CardAnchors == CardIds \cup {NoId}
OrderNames == {" b"}
OrderColumns == {1}

AppOrderStep ==
    LET s == FirstSession IN
    \/ /\ scope = "columns"
       /\ \E u \in Creators, b \in BoardIds, c \in StepColumns,
             before, after \in ColumnAnchors :
             \/ \E name \in OrderNames :
                   AppCreateColumn(s, u, b, c, name, before, after)
             \/ AppMoveColumn(s, u, b, c, before, after)
    \/ /\ scope = "cards"
       /\ \E u \in Creators, b \in BoardIds, col \in OrderColumns,
             c \in CardIds, before, after \in CardAnchors :
             \/ \E title \in OrderNames :
                   AppCreateCard(s, u, b, col, c, title, before, after)
             \/ AppMoveCard(s, u, b, c, col, before, after, NoToken)
    \/ AppCommitCreateColumn(s)
    \/ AppCommitMoveColumn(s)
    \/ AppCommitCreateCard(s)
    \/ AppCommitMoveCard(s)

ServerOrderStep ==
    \/ /\ scope = "columns"
       /\ \E u \in Creators, b \in BoardIds, c \in StepColumns,
             before, after \in ColumnAnchors :
             \/ \E name \in OrderNames :
                   ServerCreateColumn(u, b, c, name, before, after)
             \/ ServerMoveColumn(u, b, c, before, after)
    \/ /\ scope = "cards"
       /\ \E u \in Creators, b \in BoardIds, col \in OrderColumns,
             c \in CardIds, before, after \in CardAnchors :
             \/ \E title \in OrderNames :
                   ServerCreateCard(u, b, col, c, title, before, after)
             \/ \E token \in VersionTokens :
                   ServerMoveCard(u, b, c, col, before, after, token)

StorageOrderStep ==
    \/ /\ scope = "columns"
       /\ \E b \in BoardIds, c \in StepColumns, before, after \in ColumnAnchors :
             \/ \E name \in OrderNames :
                   StorageCreateColumn(b, c, name, before, after)
             \/ StorageMoveColumn(b, c, before, after)
    \/ /\ scope = "cards"
       /\ \E b \in BoardIds, col \in OrderColumns, c \in CardIds,
             before, after \in CardAnchors :
             \/ \E title \in OrderNames :
                   StorageCreateCard(b, col, c, title, before, after)
             \/ StorageMoveCard(b, c, col, before, after)

NextOrder == AppOrderStep \/ ServerOrderStep \/ StorageOrderStep

SpecOrder == InitOrder /\ [][NextOrder]_vars

----------------------------------------------------------------------------
(* Concurrent inserts: two create_column requests of src/app/main.py that  *)
(* both read their anchors before either has committed                     *)

\* A board of u1 with column 1 at key "h"
InitInsert ==
    /\ variant = "app"
    /\ scope = "insert"
    /\ KeyIdle
    /\ boards = [b \in BoardIds |->
                   [exists |-> TRUE, owner |-> "u1", name |-> "a",
                    version |-> 0, updated_at |-> 0]]
    /\ members = [b \in BoardIds |-> [u \in Users |->
                   IF u = "u1"
                   THEN [exists |-> TRUE, role |-> "admin", status |-> "active"]
                   ELSE NoMember]]
    /\ columns = [c \in ColIds |->
                   IF c = 1
                   THEN [exists |-> TRUE, board |-> 1, name |-> "a",
                         sort_key |-> <<17>>, version |-> 0,
                         created_at |-> 0, updated_at |-> 0]
                   ELSE NoColumn]
    /\ cards = [c \in CardIds |-> NoCard]
    /\ invitations = [i \in InvIds |-> NoInvitation]
    /\ now = 1
    /\ ses = [s \in Sessions |-> Idle]

\* new_uuid() gives each request an id of its own
NewColumnOf(s) == s + 1

\* The inserts begin while none of them has been persisted yet
AppInsertStep ==
    \/ /\ \A s \in Sessions : ~columns[NewColumnOf(s)].exists
       /\ \E s \in Sessions, u \in Callers, name \in NameInputs,
             before, after \in ColumnAnchors :
             AppCreateColumn(s, u, 1, NewColumnOf(s), name, before, after)
    \/ \E s \in Sessions : AppCommitCreateColumn(s)

NextInsert == AppInsertStep

SpecInsert == InitInsert /\ [][NextInsert]_vars

----------------------------------------------------------------------------
(* Claims about the key space                                              *)

\* left < right with None unbounded on its side
ValidBounds(l, r) == l = None \/ r = None \/ LexLess(l, r)

\* left < k < right, a None bound imposing nothing
StrictlyBetween(l, k, r) ==
    /\ (l # None => LexLess(l, k))
    /\ (r # None => LexLess(k, r))

\* right is left (None read as the empty string) followed only by '0'
\* symbols: no string sorts strictly between such bounds
ZeroExtension(l, r) ==
    /\ r # None
    /\ Len(r) > Len(OrEmpty(l))
    /\ \A i \in 1..Len(r) :
          IF i <= Len(OrEmpty(l)) THEN r[i] = OrEmpty(l)[i] ELSE r[i] = 0

----------------------------------------------------------------------------
(* Claims about optimistic concurrency                                     *)

CardMutations == {"update_card", "move_card"}

\* The request of session s was applied and answered 200
Succeeded(s) == ses[s].pc = "done" /\ ses[s].resp = 200

\* C2 as stated: two requests that mutate the same card (update_card and/or
\* move_card) and present the same expected version never both succeed.
C2_AtMostOneSucceeds ==
    \A s1, s2 \in Sessions :
        (/\ s1 # s2
         /\ Succeeded(s1) /\ ses[s1].op \in CardMutations
         /\ Succeeded(s2) /\ ses[s2].op \in CardMutations
         /\ ses[s1].id = ses[s2].id
         /\ ses[s1].token # NoToken)
        => ses[s1].token # ses[s2].token

\* The token a handler compares If-Match / expectedVersion with: the version
\* number, and in src/app/main.py the ETag of updated_at for boards and columns
BoardToken(b) ==
    IF variant = "app" THEN etag_from(boards[b].updated_at)
    ELSE IfMatchVersion(boards[b].version)
ColumnToken(c) ==
    IF variant = "app" THEN etag_from(columns[c].updated_at)
    ELSE IfMatchVersion(columns[c].version)
CardToken(c) == IfMatchVersion(cards[c].version)

\* The caller may write to (administer) the existing board b
MayWrite(b, u) ==
    /\ BoardExists(b)
    /\ IF variant = "app" THEN get_role(b, u) \in {"admin", "writer"}
       ELSE role_for_user(b, u) \in {"admin", "writer"}
MayAdmin(b, u) ==
    /\ BoardExists(b)
    /\ IF variant = "app" THEN get_role(b, u) = "admin"
       ELSE role_for_user(b, u) = "admin"

ColumnOf(b, c) == ColumnRow(c).exists /\ ColumnRow(c).board = b
CardOf(b, col, c) ==
    CardRow(c).exists /\ CardRow(c).board = b /\ CardRow(c).column = col

\* This step answers session s with 412 and changes no row
PreconditionFailed(s) ==
    /\ ses'[s].pc = "done"
    /\ ses'[s].resp = 412
    /\ UNCHANGED dbVars

AllTokens == (({NoToken} \cup {etag_from(t) : t \in 0..MaxClock}) \cup VersionTokens) \ {NoToken}

\* This step is the answer to, or the staging of, request op on entity id
Begins(s, op, id) == ses'[s] # ses[s] /\ ses'[s].op = op /\ ses'[s].id = id

\* C3: an update or delete of a board, column or card, or a card move, by a
\* caller allowed to make it on an entity that exists, given a token that
\* differs from the entity's current one, answers 412 and changes no row.
C3_MismatchRejected ==
    [][\A s \in Sessions, b \in BoardIds :
         /\ Begins(s, "update_board", b) =>
               \A u \in Users, token \in AllTokens, name \in TitleInputs :
                  /\ MayWrite(b, u) /\ token # BoardToken(b)
                  /\ (AppUpdateBoard(s, u, b, name, token) \/
                      (s = FirstSession /\ ServerPatchBoard(u, b, name, token)))
                  => PreconditionFailed(s)
         /\ Begins(s, "delete_board", b) =>
               \A u \in Users, token \in AllTokens :
                  /\ MayAdmin(b, u) /\ token # BoardToken(b)
                  /\ (AppDeleteBoard(s, u, b, token) \/
                      (s = FirstSession /\ ServerDeleteBoard(u, b, token)))
                  => PreconditionFailed(s)
         /\ \A c \in ColIds :
               /\ Begins(s, "rename_column", c) =>
                     \A u \in Users, token \in AllTokens, name \in TitleInputs :
                        /\ MayWrite(b, u) /\ ColumnOf(b, c)
                        /\ token # ColumnToken(c)
                        /\ (AppRenameColumn(s, u, b, c, name, token) \/
                            (s = FirstSession
                               /\ ServerPatchColumn(u, b, c, name, token)))
                        => PreconditionFailed(s)
               /\ Begins(s, "delete_column", c) =>
                     \A u \in Users, token \in AllTokens :
                        /\ MayWrite(b, u) /\ ColumnOf(b, c)
                        /\ token # ColumnToken(c)
                        /\ (AppDeleteColumn(s, u, b, c, token) \/
                            (s = FirstSession
                               /\ ServerDeleteColumn(u, b, c, token)))
                        => PreconditionFailed(s)
         /\ \A c \in CardIds :
               /\ Begins(s, "update_card", c) =>
                     \A u \in Users, token \in AllTokens, col \in ColIds,
                        title \in TitleInputs :
                        /\ MayWrite(b, u) /\ CardOf(b, col, c)
                        /\ token # CardToken(c)
                        /\ (AppUpdateCard(s, u, b, col, c, title, token) \/
                            (s = FirstSession
                               /\ ServerPatchCard(u, b, col, c, title, token)))
                        => PreconditionFailed(s)
               /\ Begins(s, "delete_card", c) =>
                     \A u \in Users, token \in AllTokens, col \in ColIds :
                        /\ MayWrite(b, u) /\ CardOf(b, col, c)
                        /\ token # CardToken(c)
                        /\ (AppDeleteCard(s, u, b, col, c, token) \/
                            (s = FirstSession
                               /\ ServerDeleteCard(u, b, col, c, token)))
                        => PreconditionFailed(s)
               /\ Begins(s, "move_card", c) =>
                     \A u \in Users, token \in AllTokens, col \in ColIds,
                        before, after \in CardIds \cup {NoId} :
                        /\ MayWrite(b, u) /\ CardRow(c).exists
                        /\ CardRow(c).board = b /\ ColumnOf(b, col)
                        /\ token # CardToken(c)
                        /\ (AppMoveCard(s, u, b, c, col, before, after, token) \/
                            (s = FirstSession
                               /\ ServerMoveCard(u, b, c, col, before, after,
                                                 token)))
                        => PreconditionFailed(s)
      ]_vars

\* C3 witness: an update of card 1 that sent version 0 after the card had
\* reached version 1 was answered 412
C3_Witness ==
    /\ ses[FirstSession].pc = "done"
    /\ ses[FirstSession].op = "update_card"
    /\ ses[FirstSession].resp = 412
    /\ cards[1].exists
    /\ cards[1].version = FirstVersion(variant) + 1

\* The requests that change an entity and keep it
Mutations == {"update_board", "rename_column", "update_card", "move_card"}

\* The current token of the entity that request op addresses
TokenOf(op, id) ==
    CASE op = "update_board" -> BoardToken(id)
      [] op = "rename_column" -> ColumnToken(id)
      [] OTHER -> CardToken(id)

\* Token t1 is of a later version (timestamp) than t2
Newer(t1, t2) == t1.kind = t2.kind /\ t1.v > t2.v

\* This step takes request op up (src/app/main.py: its commit follows) or
\* applies it with 200 and a strictly greater version
Accepted(s, op, id, token) ==
    \/ ses'[s].pc = "commit"
    \/ /\ ses'[s].pc = "done"
       /\ ses'[s].resp = 200
       /\ Newer(TokenOf(op, id)', token)

\* The request session s has just been answered 200 to, sent again
Repeated(s, op, id, token) ==
    /\ Succeeded(s)
    /\ ses[s].op = op
    /\ ses[s].id = id
    /\ ses[s].token = token

\* The anchors of an app move name cards of the target column
AnchorsOk(b, col, before, after) ==
    /\ before # NoId => (variant = "app" => CardAnchorOk(b, col, before))
    /\ after # NoId => (variant = "app" => CardAnchorOk(b, col, after))

VersionOf(op, id) ==
    CASE op = "update_board" -> boards[id].version
      [] op = "rename_column" -> columns[id].version
      [] OTHER -> cards[id].version

\* This step answers 200 to the mutation of session s
Applies(s) ==
    /\ ses'[s] # ses[s]
    /\ ses'[s].pc = "done"
    /\ ses'[s].resp = 200
    /\ ses'[s].op \in Mutations

\* C5 as stated: every successful update, rename or move of a board, column
\* or card leaves the entity's version exactly 1 greater than it was.
C5_ExactlyOne ==
    [][\A s \in Sessions, op \in Mutations, id \in ColIds \cup CardIds :
         (Applies(s) /\ ses'[s].op = op /\ ses'[s].id = id)
            => VersionOf(op, id)' = VersionOf(op, id) + 1
      ]_vars

----------------------------------------------------------------------------
(* Claims about membership                                                 *)

\* u is an effective admin of board b: the role the service gives u is admin
\* (the owner, or an active member with role admin)
EffectiveAdmin(b, u) ==
    IF variant = "app" THEN get_role(b, u) = "admin"
    ELSE role_for_user(b, u) = "admin"

EffectiveAdmins(b) == {u \in Users : EffectiveAdmin(b, u)}

\* target holds a membership of role admin on board b
AdminMember(b, target) ==
    members[b][target].exists /\ members[b][target].role = "admin"

\* This step answers session s with 409 and changes no row
LastAdminRequired(s) ==
    /\ ses'[s].pc = "done"
    /\ ses'[s].resp = 409
    /\ UNCHANGED dbVars

C7_NonSoleAdminGoes ==
    [][\A s \in Sessions, b \in BoardIds :
         /\ Begins(s, "change_member_role", b) =>
               \A u, target \in Users, role \in RoleNames :
                  /\ BoardExists(b)
                  /\ EffectiveAdmins(b) \ {target} # {}
                  /\ AppChangeMemberRole(s, u, b, target, role)
                  => ses'[s].resp # 409
         /\ Begins(s, "remove_member", b) =>
               \A u, target \in Users :
                  /\ BoardExists(b)
                  /\ EffectiveAdmins(b) \ {target} # {}
                  /\ AppRemoveMember(s, u, b, target)
                  => ses'[s].resp # 409
         /\ Begins(s, "leave_board", b) =>
               \A u \in Users :
                  /\ BoardExists(b)
                  /\ EffectiveAdmins(b) \ {u} # {}
                  /\ (AppLeaveBoard(s, u, b) \/
                      (s = FirstSession /\ ServerLeave(u, b)))
                  => ses'[s].resp # 409
      ]_vars

\* C8: every board that exists has an effective admin.
C8_AdminExists ==
    \A b \in BoardIds : boards[b].exists => EffectiveAdmins(b) # {}

\* C8 witness: two admins left the board at the same time and no admin
\* membership remains; the owner is the board's admin
C8_Witness ==
    /\ variant = "app"
    /\ BoardExists(1)
    /\ \A u \in Users : ~AdminMember(1, u)
    /\ \A s \in Sessions : ses[s].pc = "done" /\ ses[s].resp = 204

----------------------------------------------------------------------------
(* Claims about ordering by anchors                                        *)

\* The midpoint function of the variant
VariantMidpoint(left, right) ==
    CASE variant = "app" -> lexo_midpoint(left, right)
      [] variant = "server" -> server_midpoint(left, right)
      [] OTHER -> midpoint(left, right)

\* The request of session s was accepted: staged for its commit by
\* src/app/main.py, applied by the other two
Accepted9(s) ==
    IF variant = "app"
    THEN ses'[s].pc = "commit"
    ELSE ses'[s].pc = "done" /\ ses'[s].resp \in {200, 201}

\* The sort key the accepted request gives column c, card c
ColumnKeyGiven(s, c) ==
    IF variant = "app" THEN ses'[s].w.key ELSE columns'[c].sort_key
CardKeyGiven(s, c) ==
    IF variant = "app" THEN ses'[s].w.key ELSE cards'[c].sort_key

\* An anchor is absent or a column of the board, a card of the column
ColumnAnchorGiven(b, id) == id = NoId \/ ColumnAnchorOk(b, id)
CardAnchorGiven(b, col, id) == id = NoId \/ CardAnchorOk(b, col, id)

\* The column a move of card c to toCol (NoId: none given) ends in
Destination(c, toCol) == IF toCol = NoId THEN cards[c].column ELSE toCol

\* C9 as stated: every accepted create or move of a column or card, in each
\* of the three variants, gives the entity the variant's midpoint of (sort
\* key of the afterId entity, sort key of the beforeId entity), None standing
\* for an anchor not given; and an entity created or moved with only afterId
\* given gets a key greater than its anchor's.
C9_AfterIsLeft ==
    [][\A s \in Sessions, b \in BoardIds :
         /\ \A c \in ColIds :
               (Begins(s, "create_column", c) \/ Begins(s, "move_column", c))
               => \A before, after \in ColumnAnchors :
                     (/\ Accepted9(s)
                      /\ ColumnAnchorGiven(b, before)
                      /\ ColumnAnchorGiven(b, after)
                      /\ \/ \E u \in Users, name \in NameInputs :
                               \/ AppCreateColumn(s, u, b, c, name, before,
                                                  after)
                               \/ s = FirstSession
                                  /\ ServerCreateColumn(u, b, c, name, before,
                                                        after)
                         \/ \E u \in Users :
                               \/ AppMoveColumn(s, u, b, c, before, after)
                               \/ s = FirstSession
                                  /\ ServerMoveColumn(u, b, c, before, after)
                         \/ s = FirstSession
                            /\ \/ \E name \in NameInputs :
                                     StorageCreateColumn(b, c, name, before,
                                                         after)
                               \/ StorageMoveColumn(b, c, before, after))
                     => /\ ColumnKeyGiven(s, c) =
                              VariantMidpoint(ColumnAnchorKey(after),
                                              ColumnAnchorKey(before))
                        /\ (after # NoId /\ before = NoId)
                              => LexLess(ColumnAnchorKey(after),
                                         ColumnKeyGiven(s, c))
         /\ \A c \in CardIds :
               (Begins(s, "create_card", c) \/ Begins(s, "move_card", c))
               => \A before, after \in CardAnchors, col \in ColIds :
                     (/\ Accepted9(s)
                      /\ CardAnchorGiven(b, col, before)
                      /\ CardAnchorGiven(b, col, after)
                      /\ \/ \E u \in Users, title \in NameInputs :
                               \/ AppCreateCard(s, u, b, col, c, title,
                                                before, after)
                               \/ s = FirstSession
                                  /\ ServerCreateCard(u, b, col, c, title,
                                                      before, after)
                         \/ \E u \in Users, toCol \in {NoId, col},
                               token \in VersionTokens \cup {NoToken} :
                               /\ col = Destination(c, toCol)
                               /\ \/ AppMoveCard(s, u, b, c, toCol, before,
                                                 after, token)
                                  \/ s = FirstSession
                                     /\ ServerMoveCard(u, b, c, toCol, before,
                                                       after, token)
                         \/ s = FirstSession
                            /\ \/ \E title \in NameInputs :
                                     StorageCreateCard(b, col, c, title,
                                                       before, after)
                               \/ StorageMoveCard(b, c, col, before, after))
                     => /\ CardKeyGiven(s, c) =
                              VariantMidpoint(CardAnchorKey(after),
                                              CardAnchorKey(before))
                        /\ (after # NoId /\ before = NoId)
                              => LexLess(CardAnchorKey(after),
                                         CardKeyGiven(s, c))
      ]_vars

\* ORDER BY sort_key, created_at, id: the row (k1, t1, i1) is listed
\* strictly before the row (k2, t2, i2)
ListedBefore(k1, t1, i1, k2, t2, i2) ==
    \/ LexLess(k1, k2)
    \/ k1 = k2 /\ (t1 < t2 \/ (t1 = t2 /\ i1 < i2))

\* Column x is listed before column y of the same board
ColumnListedBefore(x, y) ==
    /\ columns[x].exists /\ columns[y].exists
    /\ columns[x].board = columns[y].board
    /\ ListedBefore(columns[x].sort_key, columns[x].created_at, x,
                    columns[y].sort_key, columns[y].created_at, y)

\* Card x is listed before card y of the same column
CardListedBefore(x, y) ==
    /\ cards[x].exists /\ cards[y].exists
    /\ cards[x].column = cards[y].column
    /\ ListedBefore(cards[x].sort_key, cards[x].created_at, x,
                    cards[y].sort_key, cards[y].created_at, y)

\* The instants of the clock are counted in microseconds
Microseconds == 1000000

\* now_iso of server.py, datetime.isoformat(): the text of instant t is
\* the date and time to the second, then ".ffffff" (six digits) unless the
\* microsecond is 0, then "Z".  second is the part up to the seconds (of
\* fixed width), fraction the microseconds, 0 for no ".ffffff" part
now_iso(t) == [second |-> t \div Microseconds, fraction |-> t % Microseconds]

\* get_board of main.py: 404 for no board, 403 for a caller with no role,
\* else the rows of the two queries in the order ORDER BY leaves them in
\* (rows that compare equal under the ORDER BY terms come in any order):
\* columns by (sort_key, created_at, id), cards by (column_id, sort_key,
\* created_at, id).  The value is the set of the responses the database may
\* produce; a list is given by the ids of its rows
get_board(u, b) ==
    LET ColumnsOfBoard(bb) ==
            {c \in ColIds : columns[c].exists /\ columns[c].board = bb}
        CardsOfBoard(bb) ==
            {k \in CardIds : cards[k].exists /\ cards[k].board = bb}
    IN
    IF ~boards[b].exists
    THEN {[status |-> 404, columns |-> <<>>, cards |-> <<>>]}
    ELSE IF get_role(b, u) = NoRole
    THEN {[status |-> 403, columns |-> <<>>, cards |-> <<>>]}
    ELSE {[status |-> 200, columns |-> cols, cards |-> cds] :
             cols \in {q \in [1..Cardinality(ColumnsOfBoard(b))
                                  -> ColumnsOfBoard(b)] :
                          \A i, j \in DOMAIN q :
                             i < j => /\ q[i] # q[j]
                                      /\ ~ListedBefore(columns[q[j]].sort_key,
                                                       columns[q[j]].created_at,
                                                       q[j],
                                                       columns[q[i]].sort_key,
                                                       columns[q[i]].created_at,
                                                       q[i])},
             cds \in {q \in [1..Cardinality(CardsOfBoard(b))
                                 -> CardsOfBoard(b)] :
                         \A i, j \in DOMAIN q :
                            i < j =>
                               /\ q[i] # q[j]
                               /\ cards[q[i]].column <= cards[q[j]].column
                               /\ cards[q[i]].column = cards[q[j]].column
                                     => ~ListedBefore(cards[q[j]].sort_key,
                                                      cards[q[j]].created_at,
                                                      q[j],
                                                      cards[q[i]].sort_key,
                                                      cards[q[i]].created_at,
                                                      q[i])}}

\* GET /v1/boards/{boardId} of server.py: 404 for a caller with no role or
\* no board, else the rows of the two queries, columns and cards both
\* ORDER BY sort_key, created_at, id (the cards of all columns in one list).
\* created_at is a TEXT column holding now_iso()'s text, which the ORDER BY
\* compares character by character: equal up to the seconds, a text with a
\* fraction ('.') sorts before one without (the 'Z' follows the seconds)
do_GET(u, b) ==
    LET ColumnsOfBoard(bb) ==
            {c \in ColIds : columns[c].exists /\ columns[c].board = bb}
        CardsOfBoard(bb) ==
            {k \in CardIds : cards[k].exists /\ cards[k].board = bb}
        TextLess(x, y) ==
            \/ x.second < y.second
            \/ /\ x.second = y.second
               /\ x.fraction # 0
               /\ (y.fraction = 0 \/ x.fraction < y.fraction)
        OrderedBefore(k1, t1, i1, k2, t2, i2) ==
            \/ LexLess(k1, k2)
            \/ /\ k1 = k2
               /\ \/ TextLess(now_iso(t1), now_iso(t2))
                  \/ now_iso(t1) = now_iso(t2) /\ i1 < i2
    IN
    IF ~require_member(role_for_user(b, u), "reader") \/ ~boards[b].exists
    THEN {[status |-> 404, columns |-> <<>>, cards |-> <<>>]}
    ELSE {[status |-> 200, columns |-> cols, cards |-> cds] :
             cols \in {q \in [1..Cardinality(ColumnsOfBoard(b))
                                  -> ColumnsOfBoard(b)] :
                          \A i, j \in DOMAIN q :
                             i < j => /\ q[i] # q[j]
                                      /\ ~OrderedBefore(columns[q[j]].sort_key,
                                                        columns[q[j]].created_at,
                                                        q[j],
                                                        columns[q[i]].sort_key,
                                                        columns[q[i]].created_at,
                                                        q[i])},
             cds \in {q \in [1..Cardinality(CardsOfBoard(b))
                                 -> CardsOfBoard(b)] :
                         \A i, j \in DOMAIN q :
                            i < j => /\ q[i] # q[j]
                                     /\ ~OrderedBefore(cards[q[j]].sort_key,
                                                       cards[q[j]].created_at,
                                                       q[j],
                                                       cards[q[i]].sort_key,
                                                       cards[q[i]].created_at,
                                                       q[i])}}

\* The request of session s completes with success in this step
Completes(s) ==
    /\ ses'[s].pc = "done"
    /\ ses'[s].resp \in {200, 201}
    /\ variant = "app" => ses[s].pc = "commit"

\* Entity c was placed with anchors before and after, neither of them c
\* itself nor the two the same entity: a is the anchor c was to follow,
\* resp. to precede
Follows(c, before, after, a) ==
    a = after /\ a # c /\ before # c /\ before # after
Precedes(c, before, after, a) ==
    a = before /\ a # c /\ after # c /\ before # after

\* C10 as stated: when a create or move of a column or card completes, the
\* entity is listed strictly after the entity given as afterId and strictly
\* before the one given as beforeId, in the order (sortKey, createdAt, id)
\* of the columns of its board, of the cards of its column.
C10_ListedByAnchors ==
    [][\A s \in Sessions, b \in BoardIds :
         /\ \A c \in ColIds :
               ((Begins(s, "create_column", c) \/ Begins(s, "move_column", c))
                  /\ Completes(s))
               => \A before, after \in ColumnAnchors :
                     (/\ ColumnAnchorGiven(b, before)
                      /\ ColumnAnchorGiven(b, after)
                      /\ \/ /\ variant = "app"
                            /\ ses[s].w.before = before
                            /\ ses[s].w.after = after
                            /\ columns'[c].board = b
                         \/ /\ s = FirstSession
                            /\ \/ \E u \in Users, name \in NameInputs :
                                     ServerCreateColumn(u, b, c, name, before,
                                                        after)
                               \/ \E u \in Users :
                                     ServerMoveColumn(u, b, c, before, after)
                               \/ \E name \in NameInputs :
                                     StorageCreateColumn(b, c, name, before,
                                                         after)
                               \/ StorageMoveColumn(b, c, before, after))
                     => \A a \in ColIds :
                           /\ Follows(c, before, after, a)
                                 => ColumnListedBefore(a, c)'
                           /\ Precedes(c, before, after, a)
                                 => ColumnListedBefore(c, a)'
         /\ \A c \in CardIds :
               ((Begins(s, "create_card", c) \/ Begins(s, "move_card", c))
                  /\ Completes(s))
               => \A before, after \in CardAnchors, col \in ColIds :
                     (/\ CardAnchorGiven(b, col, before)
                      /\ CardAnchorGiven(b, col, after)
                      /\ \/ /\ variant = "app"
                            /\ ses[s].w.before = before
                            /\ ses[s].w.after = after
                            /\ cards'[c].board = b
                            /\ cards'[c].column = col
                         \/ /\ s = FirstSession
                            /\ \/ \E u \in Users, title \in NameInputs :
                                     ServerCreateCard(u, b, col, c, title,
                                                      before, after)
                               \/ \E u \in Users, toCol \in {NoId, col},
                                     token \in VersionTokens :
                                     /\ col = Destination(c, toCol)
                                     /\ ServerMoveCard(u, b, c, toCol, before,
                                                       after, token)
                               \/ \E title \in NameInputs :
                                     StorageCreateCard(b, col, c, title,
                                                       before, after)
                               \/ StorageMoveCard(b, c, col, before, after))
                     => \A a \in CardIds :
                           /\ Follows(c, before, after, a)
                                 => CardListedBefore(a, c)'
                           /\ Precedes(c, before, after, a)
                                 => CardListedBefore(c, a)'
      ]_vars

----------------------------------------------------------------------------
(* Claims about the uniqueness of sort keys and about collisions           *)

\* C11 as stated: at all times no two columns of a board have the same
\* sort_key and no two cards of a column have the same sort_key.
C11_UniqueSortKeys ==
    /\ \A x, y \in ColIds :
          (x # y /\ columns[x].exists /\ columns[y].exists
             /\ columns[x].board = columns[y].board)
          => columns[x].sort_key # columns[y].sort_key
    /\ \A x, y \in CardIds :
          (x # y /\ cards[x].exists /\ cards[y].exists
             /\ cards[x].column = cards[y].column)
          => cards[x].sort_key # cards[y].sort_key

\* An insert of session t has completed and its column holds, on the same
\* board, the key session s computed from its anchors and is about to
\* persist.  (The four pairs of bounds SpecInsert offers give four different
\* raw keys: the two inserts resolved the same pair of bounds.)
Collides(s, t) ==
    /\ s # t
    /\ Committing(s, "create_column")
    /\ ses[t].pc = "done" /\ ses[t].op = "create_column" /\ ses[t].resp = 201
    /\ columns[ses[t].id].exists
    /\ columns[ses[t].id].board = ses[s].w.board
    /\ columns[ses[t].id].sort_key = ses[s].w.key

\* C12 as stated: of two concurrent inserts anchored on the same pair, the
\* first persists the raw midpoint; the second, committing when the raw key
\* is taken, persists (201) a key that differs from it and sorts strictly
\* between the bounds its anchors gave.
C12_OneRawOneRefined ==
    [][\A s, t \in Sessions :
         (Collides(s, t) /\ ses'[s].pc = "done")
         => /\ ses'[s].resp = 201
            /\ columns[ses[t].id].sort_key =
                  lexo_midpoint(ColumnAnchorKey(ses[s].w.after),
                                ColumnAnchorKey(ses[s].w.before))
            /\ columns'[ses[s].id].sort_key # columns'[ses[t].id].sort_key
            /\ StrictlyBetween(ColumnAnchorKey(ses[s].w.after),
                               columns'[ses[s].id].sort_key,
                               ColumnAnchorKey(ses[s].w.before))
      ]_vars

----------------------------------------------------------------------------
(* Claims about the validation of anchors                                  *)

\* Some create or move of column c of board b by session s with the anchors
\* before and after is this step, in whichever variant runs
ColumnPlacement(s, b, c, before, after) ==
    \/ \E u \in Users, name \in NameInputs :
          \/ AppCreateColumn(s, u, b, c, name, before, after)
          \/ s = FirstSession
             /\ ServerCreateColumn(u, b, c, name, before, after)
    \/ \E u \in Users :
          \/ AppMoveColumn(s, u, b, c, before, after)
          \/ s = FirstSession /\ ServerMoveColumn(u, b, c, before, after)
    \/ s = FirstSession
       /\ \/ \E name \in NameInputs :
                StorageCreateColumn(b, c, name, before, after)
          \/ StorageMoveColumn(b, c, before, after)

\* Likewise for card c, created in or moved to column col
CardPlacement(s, b, col, c, before, after) ==
    \/ \E u \in Users, title \in NameInputs :
          \/ AppCreateCard(s, u, b, col, c, title, before, after)
          \/ s = FirstSession
             /\ ServerCreateCard(u, b, col, c, title, before, after)
    \/ \E u \in Users, toCol \in {NoId, col},
          token \in VersionTokens \cup {NoToken} :
          /\ col = Destination(c, toCol)
          /\ \/ AppMoveCard(s, u, b, c, toCol, before, after, token)
             \/ s = FirstSession
                /\ ServerMoveCard(u, b, c, toCol, before, after, token)
    \/ s = FirstSession
       /\ \/ \E title \in NameInputs :
                StorageCreateCard(b, col, c, title, before, after)
          \/ StorageMoveCard(b, c, col, before, after)

\* The request of session s was refused with a client error, no row changed
ClientError(s) ==
    /\ ses'[s].pc = "done"
    /\ ses'[s].resp \in 400..499
    /\ UNCHANGED dbVars

\* C13 as stated: a create or move of a column or card that names, as
\* beforeId or afterId, an id that is no column of the board (no card of the
\* column) is refused with a client error and changes nothing.
C13_InvalidAnchorRefused ==
    [][\A s \in Sessions, b \in BoardIds :
         /\ \A c \in ColIds :
               (Begins(s, "create_column", c) \/ Begins(s, "move_column", c))
               => \A before, after \in ColumnAnchors :
                     (/\ ~(ColumnAnchorGiven(b, before)
                           /\ ColumnAnchorGiven(b, after))
                      /\ ColumnPlacement(s, b, c, before, after))
                     => ClientError(s)
         /\ \A c \in CardIds :
               (Begins(s, "create_card", c) \/ Begins(s, "move_card", c))
               => \A before, after \in CardAnchors, col \in ColIds :
                     (/\ ~(CardAnchorGiven(b, col, before)
                           /\ CardAnchorGiven(b, col, after))
                      /\ CardPlacement(s, b, col, c, before, after))
                     => ClientError(s)
      ]_vars

\* Both anchors are entities and the key of the afterId entity (left) is
\* not strictly below the key of the beforeId entity (right)
BoundsOutOfOrder(left, right) ==
    left # None /\ right # None /\ ~LexLess(left, right)

\* C14 as stated: a create or move of a column or card whose two anchors
\* resolve to bounds with left >= right (among them beforeId = afterId and
\* two anchors holding the same key) is refused, so midpoint is not called
\* on such bounds and nothing changes.
C14_BoundsInOrder ==
    [][\A s \in Sessions, b \in BoardIds :
         /\ \A c \in ColIds :
               (Begins(s, "create_column", c) \/ Begins(s, "move_column", c))
               => \A before, after \in ColumnAnchors :
                     (/\ before # NoId /\ ColumnAnchorOk(b, before)
                      /\ after # NoId /\ ColumnAnchorOk(b, after)
                      /\ BoundsOutOfOrder(ColumnAnchorKey(after),
                                          ColumnAnchorKey(before))
                      /\ ColumnPlacement(s, b, c, before, after))
                     => ClientError(s)
         /\ \A c \in CardIds :
               (Begins(s, "create_card", c) \/ Begins(s, "move_card", c))
               => \A before, after \in CardAnchors, col \in ColIds :
                     (/\ before # NoId /\ CardAnchorOk(b, col, before)
                      /\ after # NoId /\ CardAnchorOk(b, col, after)
                      /\ BoundsOutOfOrder(CardAnchorKey(after),
                                          CardAnchorKey(before))
                      /\ CardPlacement(s, b, col, c, before, after))
                     => ClientError(s)
      ]_vars

----------------------------------------------------------------------------
(* Claims about collisions of a move                                       *)

\* The key the move of session s is about to persist is held by another
\* column of the board, by another card of the destination column
ColumnKeyTaken(s) ==
    /\ Committing(s, "move_column")
    /\ columns[ses[s].id].exists
    /\ \E d \in ColIds \ {ses[s].id} :
          /\ columns[d].exists
          /\ columns[d].board = columns[ses[s].id].board
          /\ columns[d].sort_key = ses[s].w.key
CardKeyTaken(s) ==
    /\ Committing(s, "move_card")
    /\ cards[ses[s].id].exists
    /\ \E d \in CardIds \ {ses[s].id} :
          /\ cards[d].exists
          /\ cards[d].column = Destination(ses[s].id, ses[s].w.col)
          /\ cards[d].sort_key = ses[s].w.key

\* C15 as stated: a move of src/app/main.py that finds its candidate key
\* taken when it commits is not aborted: it is applied (200) with the
\* refined key midpoint(candidate, right bound), the right bound being the
\* key of the beforeId entity.
C15_RetryRefines ==
    [][\A s \in Sessions :
         /\ (ColumnKeyTaken(s) /\ ses'[s].pc = "done")
            => /\ ses'[s].resp = 200
               /\ columns'[ses[s].id].sort_key =
                     lexo_midpoint(ses[s].w.key,
                                   ColumnAnchorKey(ses[s].w.before))
         /\ (CardKeyTaken(s) /\ ses'[s].pc = "done")
            => /\ ses'[s].resp = 200
               /\ cards'[ses[s].id].sort_key =
                     lexo_midpoint(ses[s].w.key,
                                   CardAnchorKey(ses[s].w.before))
      ]_vars

\* C16 as stated: a move that finds its candidate key taken ends, after its
\* bounded retries, in one of two ways: applied (200) with a key no other
\* entity of the scope holds, or refused with Conflict (409) and the entity
\* as it was; never with an unhandled error, never with the taken key.
C16_ConflictWhenExhausted ==
    [][\A s \in Sessions :
         /\ (ColumnKeyTaken(s) /\ ses'[s] # ses[s])
            => /\ ses'[s].pc = "done"
               /\ \/ /\ ses'[s].resp = 200
                     /\ \A d \in ColIds \ {ses[s].id} :
                           (columns'[d].exists
                              /\ columns'[d].board = columns'[ses[s].id].board)
                           => columns'[d].sort_key #
                                 columns'[ses[s].id].sort_key
                  \/ /\ ses'[s].resp = 409
                     /\ UNCHANGED columns
         /\ (CardKeyTaken(s) /\ ses'[s] # ses[s])
            => /\ ses'[s].pc = "done"
               /\ \/ /\ ses'[s].resp = 200
                     /\ \A d \in CardIds \ {ses[s].id} :
                           (cards'[d].exists
                              /\ cards'[d].column = cards'[ses[s].id].column)
                           => cards'[d].sort_key # cards'[ses[s].id].sort_key
                  \/ /\ ses'[s].resp = 409
                     /\ UNCHANGED cards
      ]_vars

----------------------------------------------------------------------------
(* Roles: every writing operation of src/app/main.py and src/server.py,    *)
(* one request at a time, called by the owner, a writer, a reader and a    *)
(* user without membership                                                 *)

\* A board of u1 with columns "h" and "q" and a card in the first; in the app
\* u2 is a writer and u3 a reader or no member, server.py has no operation
\* that inserts a membership
InitRole ==
    /\ variant \in {"app", "server"}
    /\ scope \in {"role-board", "role-column", "role-card", "role-member"}
    /\ KeyIdle
    /\ boards = [b \in BoardIds |->
                   [exists |-> TRUE, owner |-> "u1", name |-> "a",
                    version |-> FirstVersion(variant), updated_at |-> 0]]
    /\ \E r3 \in {"reader", NoRole} :
          /\ variant = "server" => r3 = NoRole
          /\ members = [b \in BoardIds |-> [u \in Users |->
                          IF variant = "server" \/ (u = "u3" /\ r3 = NoRole)
                          THEN NoMember
                          ELSE [exists |-> TRUE, status |-> "active",
                                role |-> CASE u = "u1" -> "admin"
                                           [] u = "u2" -> "writer"
                                           [] OTHER -> r3]]]
    /\ columns = [c \in ColIds |->
                   IF c \in StepColumns
                   THEN [exists |-> TRUE, board |-> 1, name |-> "a",
                         sort_key |-> IF c = 1 THEN <<17>> ELSE <<26>>,
                         version |-> FirstVersion(variant), created_at |-> 0,
                         updated_at |-> 0]
                   ELSE NoColumn]
    /\ cards = [c \in CardIds |->
                   IF c = 1
                   THEN [exists |-> TRUE, board |-> 1, column |-> 1,
                         title |-> "a", sort_key |-> <<17>>,
                         version |-> FirstVersion(variant), created_at |-> 0]
                   ELSE NoCard]
    /\ invitations = [i \in InvIds |-> NoInvitation]
    /\ now = 1
    /\ ses = [s \in Sessions |-> Idle]

\* The requests: every user calls, with a name and, in the app, without a
\* token; column 1 and card 1 are changed, column 3 and card 2 created,
\* column 2 is the anchor and the destination; u2 and u3 are invited,
\* changed, removed and offered the ownership
AppRoleBoardStep ==
    /\ scope = "role-board"
    /\ LET s == FirstSession IN
       \/ \E u \in Users, b \in BoardIds, token \in {NoToken} :
             \/ \E name \in OrderNames :
                   AppUpdateBoard(s, u, b, name, token)
             \/ AppDeleteBoard(s, u, b, token)
       \/ AppCommitUpdateBoard(s)
       \/ AppCommitDeleteBoard(s)

AppRoleColumnStep ==
    /\ scope = "role-column"
    /\ LET s == FirstSession IN
       \/ \E u \in Users, b \in BoardIds, name \in OrderNames,
             c \in ColIds \ StepColumns :
             AppCreateColumn(s, u, b, c, name, NoId, NoId)
       \/ \E u \in Users, b \in BoardIds, c \in OrderColumns,
             token \in {NoToken} :
             \/ \E name \in OrderNames :
                   AppRenameColumn(s, u, b, c, name, token)
             \/ \E after \in {NoId, 2} :
                   AppMoveColumn(s, u, b, c, NoId, after)
             \/ AppDeleteColumn(s, u, b, c, token)
       \/ AppCommitCreateColumn(s)
       \/ AppCommitRenameColumn(s)
       \/ AppCommitMoveColumn(s)
       \/ AppCommitDeleteColumn(s)

AppRoleCardStep ==
    /\ scope = "role-card"
    /\ LET s == FirstSession IN
       \/ \E u \in Users, b \in BoardIds, col \in OrderColumns,
             title \in OrderNames :
             \/ \E c \in CardIds \ TargetCards :
                   AppCreateCard(s, u, b, col, c, title, NoId, NoId)
             \/ \E c \in TargetCards, token \in {NoToken} :
                   \/ AppUpdateCard(s, u, b, col, c, title, token)
                   \/ AppMoveCard(s, u, b, c, 2, NoId, NoId, token)
                   \/ AppDeleteCard(s, u, b, col, c, token)
       \/ AppCommitCreateCard(s)
       \/ AppCommitUpdateCard(s)
       \/ AppCommitMoveCard(s)
       \/ AppCommitDeleteCard(s)

AppRoleMemberStep ==
    /\ scope = "role-member"
    /\ LET s == FirstSession IN
       \/ \E u \in Users, b \in BoardIds :
             \/ \E target \in Users \ Creators, role \in {"writer"} :
                   \/ AppInviteMember(s, u, b, target, role)
                   \/ AppChangeMemberRole(s, u, b, target, role)
             \/ \E target \in Users \ Creators : AppRemoveMember(s, u, b, target)
             \/ \E new_owner \in Users \ Creators :
                   AppTransferOwnership(s, u, b, new_owner)
             \/ AppLeaveBoard(s, u, b)
       \/ AppCommitInviteMember(s)
       \/ AppCommitChangeMemberRole(s)
       \/ AppCommitRemoveMember(s)
       \/ AppCommitTransferOwnership(s)
       \/ AppCommitLeaveBoard(s)

ServerRoleBoardStep ==
    /\ scope = "role-board"
    /\ \E u \in Users, b \in BoardIds, token \in VersionTokens :
          \/ \E name \in OrderNames : ServerPatchBoard(u, b, name, token)
          \/ ServerDeleteBoard(u, b, token)

ServerRoleColumnStep ==
    /\ scope = "role-column"
    /\ \E u \in Users, b \in BoardIds :
          \/ \E name \in OrderNames, c \in ColIds \ StepColumns :
                ServerCreateColumn(u, b, c, name, NoId, NoId)
          \/ \E c \in OrderColumns :
                \/ \E name \in OrderNames, token \in VersionTokens :
                      ServerPatchColumn(u, b, c, name, token)
                \/ \E after \in {NoId, 2} :
                      ServerMoveColumn(u, b, c, NoId, after)
                \/ \E token \in VersionTokens :
                      ServerDeleteColumn(u, b, c, token)

ServerRoleCardStep ==
    /\ scope = "role-card"
    /\ \E u \in Users, b \in BoardIds, col \in OrderColumns,
          title \in OrderNames :
          \/ \E c \in CardIds \ TargetCards :
                ServerCreateCard(u, b, col, c, title, NoId, NoId)
          \/ \E c \in TargetCards, token \in VersionTokens :
                \/ ServerPatchCard(u, b, col, c, title, token)
                \/ ServerMoveCard(u, b, c, 2, NoId, NoId, token)
                \/ ServerDeleteCard(u, b, col, c, token)

ServerRoleMemberStep ==
    /\ scope = "role-member"
    /\ \E u \in Users, b \in BoardIds : ServerLeave(u, b)

NextRole ==
    \/ AppRoleBoardStep
    \/ AppRoleColumnStep
    \/ AppRoleCardStep
    \/ AppRoleMemberStep
    \/ ServerRoleBoardStep
    \/ ServerRoleColumnStep
    \/ ServerRoleCardStep
    \/ ServerRoleMemberStep

SpecRole == InitRole /\ [][NextRole]_vars

----------------------------------------------------------------------------
(* Claims about role gating                                                *)

\* This step answers session s with 403 and changes no row
Forbidden(s) ==
    /\ ses'[s].pc = "done"
    /\ ses'[s].resp = 403
    /\ ses'[s].token = NoToken
    /\ UNCHANGED dbVars

\* Every token a request can carry, none included
AnyToken == ({NoToken} \cup {etag_from(t) : t \in 0..MaxClock}) \cup VersionTokens

\* C17: an update, delete or move of a board, column or card of an existing
\* board by a caller whose role is below the operation's minimum (writer;
\* admin for the deletion of the board) answers 403 and changes nothing
\* whatever token it carries - the current one, a stale one or none: the
\* answer and the state it leaves are the same for every token.
C17_ForbiddenWhateverToken ==
    [][\A s \in Sessions, b \in BoardIds :
         /\ Begins(s, "update_board", b) =>
               \A u \in Users, token \in AnyToken, name \in TitleInputs :
                  /\ BoardExists(b) /\ ~MayWrite(b, u)
                  /\ (AppUpdateBoard(s, u, b, name, token) \/
                      (s = FirstSession /\ ServerPatchBoard(u, b, name, token)))
                  => Forbidden(s)
         /\ Begins(s, "delete_board", b) =>
               \A u \in Users, token \in AnyToken :
                  /\ BoardExists(b) /\ ~MayAdmin(b, u)
                  /\ (AppDeleteBoard(s, u, b, token) \/
                      (s = FirstSession /\ ServerDeleteBoard(u, b, token)))
                  => Forbidden(s)
         /\ \A c \in ColIds :
               /\ Begins(s, "rename_column", c) =>
                     \A u \in Users, token \in AnyToken, name \in TitleInputs :
                        /\ BoardExists(b) /\ ~MayWrite(b, u)
                        /\ (AppRenameColumn(s, u, b, c, name, token) \/
                            (s = FirstSession
                               /\ ServerPatchColumn(u, b, c, name, token)))
                        => Forbidden(s)
               /\ Begins(s, "delete_column", c) =>
                     \A u \in Users, token \in AnyToken :
                        /\ BoardExists(b) /\ ~MayWrite(b, u)
                        /\ (AppDeleteColumn(s, u, b, c, token) \/
                            (s = FirstSession
                               /\ ServerDeleteColumn(u, b, c, token)))
                        => Forbidden(s)
         /\ \A c \in CardIds :
               /\ Begins(s, "update_card", c) =>
                     \A u \in Users, token \in AnyToken, col \in ColIds,
                        title \in TitleInputs :
                        /\ BoardExists(b) /\ ~MayWrite(b, u)
                        /\ (AppUpdateCard(s, u, b, col, c, title, token) \/
                            (s = FirstSession
                               /\ ServerPatchCard(u, b, col, c, title, token)))
                        => Forbidden(s)
               /\ Begins(s, "delete_card", c) =>
                     \A u \in Users, token \in AnyToken, col \in ColIds :
                        /\ BoardExists(b) /\ ~MayWrite(b, u)
                        /\ (AppDeleteCard(s, u, b, col, c, token) \/
                            (s = FirstSession
                               /\ ServerDeleteCard(u, b, col, c, token)))
                        => Forbidden(s)
               /\ Begins(s, "move_card", c) =>
                     \A u \in Users, token \in AnyToken,
                        col \in ColIds \cup {NoId},
                        before, after \in CardIds \cup {NoId} :
                        /\ BoardExists(b) /\ ~MayWrite(b, u)
                        /\ (AppMoveCard(s, u, b, c, col, before, after, token) \/
                            (s = FirstSession
                               /\ ServerMoveCard(u, b, c, col, before, after,
                                                 token)))
                        => Forbidden(s)
      ]_vars

\* C17 witness: card 1 has been updated, so that a stale and a current token
\* of it exist, and an update of it was then answered 403
C17_Witness ==
    \E s \in Sessions :
        /\ ses[s].pc = "done"
        /\ ses[s].op = "update_card"
        /\ ses[s].id = 1
        /\ ses[s].resp = 403
        /\ cards[1].exists
        /\ cards[1].version > FirstVersion(variant)

\* The caller's resolved role for the board
RoleOf(b, u) ==
    IF variant = "app" THEN get_role(b, u) ELSE role_for_user(b, u)

\* A step of session s that begins an operation with a stated minimum role
\* on board b for a caller below that minimum answers 403 and changes no row
GatedRefused(s, b) ==
    /\ Begins(s, "update_board", b) =>
          \A u \in Users, token \in AnyToken, name \in TitleInputs :
             /\ ~MayWrite(b, u)
             /\ (AppUpdateBoard(s, u, b, name, token) \/
                 (s = FirstSession /\ ServerPatchBoard(u, b, name, token)))
             => Forbidden(s)
    /\ Begins(s, "delete_board", b) =>
          \A u \in Users, token \in AnyToken :
             /\ ~MayAdmin(b, u)
             /\ (AppDeleteBoard(s, u, b, token) \/
                 (s = FirstSession /\ ServerDeleteBoard(u, b, token)))
             => Forbidden(s)
    /\ \A c \in ColIds :
          /\ Begins(s, "create_column", c) =>
                \A u \in Users, name \in TitleInputs,
                   before, after \in ColIds \cup {NoId} :
                   /\ ~MayWrite(b, u)
                   /\ (AppCreateColumn(s, u, b, c, name, before, after) \/
                       (s = FirstSession
                          /\ ServerCreateColumn(u, b, c, name, before, after)))
                   => Forbidden(s)
          /\ Begins(s, "rename_column", c) =>
                \A u \in Users, token \in AnyToken, name \in TitleInputs :
                   /\ ~MayWrite(b, u)
                   /\ (AppRenameColumn(s, u, b, c, name, token) \/
                       (s = FirstSession
                          /\ ServerPatchColumn(u, b, c, name, token)))
                   => Forbidden(s)
          /\ Begins(s, "move_column", c) =>
                \A u \in Users, before, after \in ColIds \cup {NoId} :
                   /\ ~MayWrite(b, u)
                   /\ (AppMoveColumn(s, u, b, c, before, after) \/
                       (s = FirstSession
                          /\ ServerMoveColumn(u, b, c, before, after)))
                   => Forbidden(s)
          /\ Begins(s, "delete_column", c) =>
                \A u \in Users, token \in AnyToken :
                   /\ ~MayWrite(b, u)
                   /\ (AppDeleteColumn(s, u, b, c, token) \/
                       (s = FirstSession
                          /\ ServerDeleteColumn(u, b, c, token)))
                   => Forbidden(s)
    /\ \A c \in CardIds :
          /\ Begins(s, "create_card", c) =>
                \A u \in Users, col \in ColIds, title \in TitleInputs,
                   before, after \in CardIds \cup {NoId} :
                   /\ ~MayWrite(b, u)
                   /\ (AppCreateCard(s, u, b, col, c, title, before, after) \/
                       (s = FirstSession
                          /\ ServerCreateCard(u, b, col, c, title, before,
                                              after)))
                   => Forbidden(s)
          /\ Begins(s, "update_card", c) =>
                \A u \in Users, token \in AnyToken, col \in ColIds,
                   title \in TitleInputs :
                   /\ ~MayWrite(b, u)
                   /\ (AppUpdateCard(s, u, b, col, c, title, token) \/
                       (s = FirstSession
                          /\ ServerPatchCard(u, b, col, c, title, token)))
                   => Forbidden(s)
          /\ Begins(s, "move_card", c) =>
                \A u \in Users, token \in AnyToken,
                   col \in ColIds \cup {NoId},
                   before, after \in CardIds \cup {NoId} :
                   /\ ~MayWrite(b, u)
                   /\ (AppMoveCard(s, u, b, c, col, before, after, token) \/
                       (s = FirstSession
                          /\ ServerMoveCard(u, b, c, col, before, after,
                                            token)))
                   => Forbidden(s)
          /\ Begins(s, "delete_card", c) =>
                \A u \in Users, token \in AnyToken, col \in ColIds :
                   /\ ~MayWrite(b, u)
                   /\ (AppDeleteCard(s, u, b, col, c, token) \/
                       (s = FirstSession
                          /\ ServerDeleteCard(u, b, col, c, token)))
                   => Forbidden(s)
    /\ Begins(s, "invite_member", b) =>
          \A u \in Users, target \in Users \cup {NoUser},
             role \in (RoleNames \cup {NoRole}) :
             ~MayAdmin(b, u) /\ AppInviteMember(s, u, b, target, role)
             => Forbidden(s)
    /\ Begins(s, "change_member_role", b) =>
          \A u, target \in Users, role \in (RoleNames \cup {NoRole}) :
             ~MayAdmin(b, u) /\ AppChangeMemberRole(s, u, b, target, role)
             => Forbidden(s)
    /\ Begins(s, "remove_member", b) =>
          \A u, target \in Users :
             ~MayAdmin(b, u) /\ AppRemoveMember(s, u, b, target)
             => Forbidden(s)
    /\ Begins(s, "transfer_ownership", b) =>
          \A u \in Users, new_owner \in Users \cup {NoUser} :
             ~MayAdmin(b, u) /\ AppTransferOwnership(s, u, b, new_owner)
             => Forbidden(s)

\* A step of session s in which a caller without any role on board b asks to
\* leave it answers 403 and changes no row
RolelessLeaveRefused(s, b) ==
    Begins(s, "leave_board", b) =>
       \A u \in Users :
          /\ RoleOf(b, u) = NoRole
          /\ (AppLeaveBoard(s, u, b) \/
              (s = FirstSession /\ ServerLeave(u, b)))
          => Forbidden(s)

\* C18: every writing operation on an existing board called by a user whose
\* role is below the operation's minimum (writer for the update of the board
\* and for creating, updating, moving and deleting columns and cards; admin
\* for deleting the board, inviting, changing and removing members and
\* transferring the ownership), or who has no role at all, answers 403 and
\* changes no board, column, card or membership.
C18_BelowMinimumForbidden ==
    [][\A s \in Sessions, b \in BoardIds :
          BoardExists(b) => GatedRefused(s, b) /\ RolelessLeaveRefused(s, b)
      ]_vars

\* User u holds an active membership of board b
ActiveMember(b, u) ==
    /\ u \in Users
    /\ members[b][u].exists
    /\ members[b][u].status = "active"

\* This step answers session s with 422 and changes no row
ValidationError(s) ==
    /\ ses'[s].pc = "done"
    /\ ses'[s].resp = 422
    /\ UNCHANGED dbVars

\* C19: transfer_ownership called by an admin of an existing board goes on
\* to its commit only if the named user holds an active membership of the
\* board; for any other user, or none, it answers 422 and changes no row.
\* The owner of a board changes only in the commit of such a transfer, to
\* the user the handler found to be a member.
C19_TransferNeedsMember ==
    [][\A s \in Sessions, b \in BoardIds :
         /\ Begins(s, "transfer_ownership", b) =>
               \A u \in Users, new_owner \in Users \cup {NoUser} :
                  /\ BoardExists(b) /\ MayAdmin(b, u)
                  /\ AppTransferOwnership(s, u, b, new_owner)
                  => IF ActiveMember(b, new_owner)
                     THEN /\ ses'[s].pc = "commit"
                          /\ ses'[s].w.user \in {new_owner, NoUser}
                     ELSE ValidationError(s)
         /\ (boards[b].exists /\ boards'[b].exists
               /\ boards'[b].owner # boards[b].owner) =>
               \E t \in Sessions :
                  /\ AppCommitTransferOwnership(t)
                  /\ ses[t].id = b
                  /\ boards'[b].owner = ses[t].w.user
                  /\ ses'[t].resp = 200
      ]_vars

\* C19 witness: one transfer was refused with 422 and is still on record
\* while another, made after the user had joined, gave the board to u2
C19_Witness ==
    \E s, t \in Sessions :
        /\ s # t
        /\ ses[s].pc = "done"
        /\ ses[s].op = "transfer_ownership"
        /\ ses[s].resp = 422
        /\ ses[t].pc = "done"
        /\ ses[t].op = "transfer_ownership"
        /\ ses[t].resp = 200
        /\ boards[1].exists
        /\ boards[1].owner = "u2"
        /\ ActiveMember(1, "u2")

----------------------------------------------------------------------------
(* Claims about the lifetime of rows                                       *)

\* Every stored column, card and membership belongs to a stored board, and
\* every stored card to a stored column of its board
NoOrphans ==
    /\ \A c \in ColIds : columns[c].exists => BoardExists(columns[c].board)
    /\ \A k \in CardIds :
          cards[k].exists =>
             /\ BoardExists(cards[k].board)
             /\ ColumnOf(cards[k].board, cards[k].column)
    /\ \A b \in BoardIds, u \in Users : members[b][u].exists => boards[b].exists

\* A step that removes a column removes its cards, a step that removes a
\* board removes its columns, cards and memberships
Cascades ==
    /\ \A c \in ColIds :
          columns[c].exists /\ ~columns'[c].exists =>
             \A k \in CardIds :
                cards[k].exists /\ cards[k].column = c => ~cards'[k].exists
    /\ \A b \in BoardIds :
          boards[b].exists /\ ~boards'[b].exists =>
             /\ \A c \in ColIds :
                   columns[c].exists /\ columns[c].board = b
                   => ~columns'[c].exists
             /\ \A k \in CardIds :
                   cards[k].exists /\ cards[k].board = b => ~cards'[k].exists
             /\ \A u \in Users : ~members'[b][u].exists

\* C20: deletes cascade - the delete of a column removes the cards of the
\* column, the delete of a board removes its columns, cards and memberships -
\* and so in every reachable state the column and the board of every stored
\* card exist.
C20_DeletesCascade == []NoOrphans /\ [][Cascades]_vars

----------------------------------------------------------------------------
(* Claims about what an operation leaves alone                             *)

\* This step ends the request of session s with an error status
EndsInError(s) ==
    /\ ses'[s] # ses[s]
    /\ ses'[s].pc = "done"
    /\ ses'[s].resp >= 400

\* This step keeps every row's version and sort key, every card's column
\* and every board's memberships
VersionsKeysMembersKept ==
    /\ \A b \in BoardIds :
          /\ boards'[b].exists = boards[b].exists
          /\ boards'[b].version = boards[b].version
          /\ members'[b] = members[b]
    /\ \A c \in ColIds :
          /\ columns'[c].exists = columns[c].exists
          /\ columns'[c].version = columns[c].version
          /\ columns'[c].sort_key = columns[c].sort_key
    /\ \A k \in CardIds :
          /\ cards'[k].exists = cards[k].exists
          /\ cards'[k].version = cards[k].version
          /\ cards'[k].sort_key = cards[k].sort_key
          /\ cards'[k].column = cards[k].column

\* C21: a step in which a request is answered with an error (a status of 400
\* or above: validation error, invalid anchor, precondition failed, conflict,
\* forbidden, last admin required, not found) leaves the version and the
\* sort key of every board, column and card, the column of every card and
\* the memberships of every board as they were.
C21_ErrorChangesNothing ==
    [][\A s \in Sessions : EndsInError(s) => VersionsKeysMembersKept]_vars

\* C21 witness: a move of card 1 was refused with 412 after the card had
\* been changed
C21_Witness ==
    \E s \in Sessions :
        /\ ses[s].pc = "done"
        /\ ses[s].op = "move_card"
        /\ ses[s].id = 1
        /\ ses[s].resp = 412
        /\ cards[1].exists
        /\ cards[1].version > FirstVersion(variant)

----------------------------------------------------------------------------
(* Claims about repeated inserts and the first key                         *)

\* C22: starting from midpoint(None, None) and always inserting at the very
\* start, k(n+1) = midpoint(None, k(n)), every key is strictly smaller
\* lexicographically than the one before it and all keys returned are
\* pairwise distinct.
C22_StartDecreases ==
    /\ \A i \in 2..Len(kseq) : LexLess(kseq[i], kseq[i - 1])
    /\ \A i, j \in 1..Len(kseq) : i # j => kseq[i] # kseq[j]

\* C22 witness: app.utils.lexo_midpoint has run out of one-symbol keys below
\* "h" and gone on to two and three symbols
C22_Witness ==
    /\ scope = "start"
    /\ kpc = "utils"
    /\ Len(kseq) >= 11
    /\ kseq[1] = <<17>>
    /\ kseq[5] = <<1>>
    /\ kseq[6] = <<0, 17>>
    /\ kseq[11] = <<0, 0, 17>>

\* C23: midpoint(None, None) returns the same definite key on every call,
\* the one-symbol key of floor((0 + 35) / 2) = 17, "h"; and calls with equal
\* arguments return equal keys, whichever copy of the algorithm runs: the
\* key returned is a function of the two bounds alone.
C23_FirstKeyDefinite ==
    kpc \in {"lexorank", "utils", "server"} =>
        /\ (kl = None /\ kr = None) =>
              kout = <<(MIN + MAX) \div 2>> /\ kout = <<17>>
        /\ kout = midpoint(kl, kr)
        /\ kout = lexo_midpoint(kl, kr)
        /\ kout = server_midpoint(kl, kr)

\* C23 witness: server.midpoint was called with both bounds None
C23_Witness ==
    /\ scope = "key"
    /\ kpc = "server"
    /\ kl = None
    /\ kr = None
    /\ kout = <<17>>

----------------------------------------------------------------------------
(* Claims about moves without a version                                    *)

\* C24: a move of an existing card of the board by a caller allowed to make
\* it, sent without an expectedVersion, is never answered 412, whatever the
\* version of the card; unless the destination or an anchor is refused it is
\* applied as a move with the matching version is: the card gets the next
\* version.
C24_MoveWithoutVersion ==
    [][\A s \in Sessions, b \in BoardIds, c \in CardIds :
         Begins(s, "move_card", c) =>
            \A u \in Users, col \in ColIds \cup {NoId},
               before, after \in CardIds \cup {NoId} :
               /\ MayWrite(b, u)
               /\ CardRow(c).exists /\ CardRow(c).board = b
               /\ (AppMoveCard(s, u, b, c, col, before, after, NoToken) \/
                   (s = FirstSession
                      /\ ServerMoveCard(u, b, c, col, before, after, NoToken)))
               => /\ ses'[s].resp # 412
                  /\ \/ ses'[s].resp \in {409, 422}
                     \/ /\ variant = "app"
                        /\ ses'[s].pc = "commit"
                        /\ ses'[s].w.ver = cards[c].version + 1
                     \/ /\ variant = "server"
                        /\ ses'[s].resp = 200
                        /\ cards'[c].version = cards[c].version + 1
      ]_vars

----------------------------------------------------------------------------
(* Claims about the owner and the admins of a board                        *)

\* C25: in every reachable state the owner of an existing board resolves to
\* the role admin, whether or not the owner holds a membership of the board
\* and whatever the role and status of that membership.
C25_OwnerIsAdmin ==
    \A b \in BoardIds : boards[b].exists => RoleOf(b, boards[b].owner) = "admin"

\* C25 witness: the ownership went to u2, whose membership is not one of
\* role admin, and the first owner has left the board
C25_Witness ==
    /\ variant = "app"
    /\ BoardExists(1)
    /\ boards[1].owner = "u2"
    /\ members[1]["u2"].exists
    /\ members[1]["u2"].role # "admin"
    /\ ~members[1]["u1"].exists

\* The users that hold a membership of role admin on board b
AdminMembers(b) == {u \in Users : AdminMember(b, u)}

\* On board b of u1, an admin asks to take the role admin from u1 while u1's
\* is the only admin membership: the request is answered 409, nothing changes
SoleAdminDemotionRefused(s, b) ==
    Begins(s, "change_member_role", b) =>
       \A u \in Users, role \in RoleNames \ {"admin"} :
          /\ BoardExists(b) /\ boards[b].owner = "u1"
          /\ MayAdmin(b, u)
          /\ AdminMembers(b) = {"u1"}
          /\ AppChangeMemberRole(s, u, b, "u1", role)
          => LastAdminRequired(s)

\* Session s commits the demotion of u1 on board b of u1 while u2 holds an
\* admin membership, and the demotion is applied
DemotesFirstAdmin(s, b) ==
    /\ ses[s].op = "change_member_role"
    /\ ses[s].id = b
    /\ ses[s].w.user = "u1"
    /\ ses[s].w.role \in RoleNames \ {"admin"}
    /\ BoardExists(b) /\ boards[b].owner = "u1"
    /\ AdminMember(b, "u1")
    /\ AdminMember(b, "u2")
    /\ AppCommitChangeMemberRole(s)
    /\ ses'[s].resp = 200

\* C26 as stated: on a board created by u1, demoting u1 while u1 is the only
\* admin is answered LastAdminRequired; once u2 is an admin the demotion of
\* u1 succeeds and u2 is then the only user whose role on the board is admin.
C26_Original ==
    [][\A s \in Sessions, b \in BoardIds :
         /\ SoleAdminDemotionRefused(s, b)
         /\ DemotesFirstAdmin(s, b) =>
               {u \in Users : get_role(b, u)' = "admin"} = {"u2"}
      ]_vars

\* C26 amended: on a board created by u1, demoting u1 while u1 is the only
\* admin is answered LastAdminRequired; once u2 is an admin the demotion of
\* u1 succeeds and u2 then holds the only membership of role admin, while
\* u1, the owner, still resolves to the role admin.
C26_DemotionScenario ==
    [][\A s \in Sessions, b \in BoardIds :
         /\ SoleAdminDemotionRefused(s, b)
         /\ DemotesFirstAdmin(s, b) =>
               /\ AdminMembers(b)' = {"u2"}
               /\ members'[b]["u1"].role = ses[s].w.role
               /\ {u \in Users : get_role(b, u)' = "admin"} = {"u1", "u2"}
      ]_vars

\* C26 witness: u1 was demoted to writer after u2 had become an admin
C26_Witness ==
    /\ variant = "app"
    /\ BoardExists(1)
    /\ boards[1].owner = "u1"
    /\ members[1]["u1"].exists
    /\ members[1]["u1"].role = "writer"
    /\ AdminMembers(1) = {"u2"}
    /\ \E s \in Sessions :
          /\ ses[s].pc = "done"
          /\ ses[s].op = "change_member_role"
          /\ ses[s].resp = 200

----------------------------------------------------------------------------
(* Claims about versions and sort keys over time                           *)

\* C27: no step, whether it applies a request or answers an error, lowers
\* the version of a board, column or card that exists before and after it.
C27_VersionNeverLowers ==
    [][/\ \A b \in BoardIds :
             boards[b].exists /\ boards'[b].exists
             => boards'[b].version >= boards[b].version
       /\ \A c \in ColIds :
             columns[c].exists /\ columns'[c].exists
             => columns'[c].version >= columns[c].version
       /\ \A k \in CardIds :
             cards[k].exists /\ cards'[k].exists
             => cards'[k].version >= cards[k].version
      ]_vars

\* This step ends request op of session s on entity id: in the app it is the
\* commit of the request, in server.py and the store (one request at a time,
\* each a single step) the request itself
Ends(s, op, id) ==
    /\ ses'[s].pc = "done"
    /\ ses'[s].op = op
    /\ ses'[s].id = id
    /\ IF variant = "app" THEN ses[s].pc = "commit" ELSE s = FirstSession

\* C28: creating or moving a column or card renumbers no sibling - a step
\* changes the sort key of a stored column or card only if it is the move of
\* that very column or card; every other sort key stays as it was.
C28_NoRenumbering ==
    [][/\ \A c \in ColIds :
             /\ columns[c].exists /\ columns'[c].exists
             /\ columns'[c].sort_key # columns[c].sort_key
             => \E s \in Sessions : Ends(s, "move_column", c)
       /\ \A k \in CardIds :
             /\ cards[k].exists /\ cards'[k].exists
             /\ cards'[k].sort_key # cards[k].sort_key
             => \E s \in Sessions : Ends(s, "move_card", k)
      ]_vars

\* C28 witness: a column was created next to a stored one, which kept its
\* key "h"
C28_Witness ==
    /\ ses[FirstSession].pc = "done"
    /\ ses[FirstSession].op = "create_column"
    /\ ses[FirstSession].resp \in {200, 201}
    /\ columns[1].exists /\ columns[1].sort_key = <<17>>
    /\ columns[2].exists /\ columns[2].sort_key # <<17>>

\* The responses a board view of board b may give caller u
BoardViews(u, b) ==
    IF variant = "app" THEN get_board(u, b)
    ELSE IF variant = "server" THEN do_GET(u, b)
    ELSE {}

\* C29: a board view lists the columns of the board, each once, in ascending
\* (sortKey, createdAt, id) order, and the cards of each column, each once, in
\* ascending (sortKey, createdAt, id) order; and any two distinct columns of a
\* board, and any two distinct cards of a column, are strictly ordered one
\* way or the other, also when their sort keys are equal
C29_ViewOrder ==
    /\ \A u \in Users, b \in BoardIds : \A v \in BoardViews(u, b) :
          v.status = 200 =>
             /\ \A c \in ColIds :
                   (columns[c].exists /\ columns[c].board = b)
                      <=> \E i \in DOMAIN v.columns : v.columns[i] = c
             /\ \A k \in CardIds :
                   (cards[k].exists /\ cards[k].board = b)
                      <=> \E i \in DOMAIN v.cards : v.cards[i] = k
             /\ \A i, j \in DOMAIN v.columns :
                   i < j => ColumnListedBefore(v.columns[i], v.columns[j])
             /\ \A i, j \in DOMAIN v.cards :
                   (i < j /\ cards[v.cards[i]].column = cards[v.cards[j]].column)
                      => CardListedBefore(v.cards[i], v.cards[j])
    /\ \A x, y \in ColIds :
          (/\ x # y
           /\ columns[x].exists /\ columns[y].exists
           /\ columns[x].board = columns[y].board)
             => ColumnListedBefore(x, y) \/ ColumnListedBefore(y, x)
    /\ \A x, y \in CardIds :
          (/\ x # y
           /\ cards[x].exists /\ cards[y].exists
           /\ cards[x].column = cards[y].column)
             => CardListedBefore(x, y) \/ CardListedBefore(y, x)

\* The reference algorithm, in closed form: with l(i) the value of left[i]
\* (0 past left's end, and everywhere for no left) and r(i) the value of
\* right[i] (35 past right's end), and n the first position where
\* r(n) - l(n) >= 2, the key is l(0), ..., l(n - 1), floor((l(n) + r(n)) / 2)
Reference(left, right) ==
    LET l(i) == IF left # None /\ i < Len(left) THEN left[i + 1] ELSE 0
        r(i) == IF right # None /\ i < Len(right) THEN right[i + 1] ELSE 35
        ends == IF left = None THEN 0 ELSE Len(left)
        ende == IF right = None THEN 0 ELSE Len(right)
        n == CHOOSE i \in 0..(ends + ende) :
                /\ r(i) - l(i) >= 2
                /\ \A j \in 0..(i - 1) : r(j) - l(j) < 2
    IN  [i \in 1..(n + 1) |->
            IF i <= n THEN l(i - 1) ELSE (l(n) + r(n)) \div 2]

\* C30: for every pair of bounds the key returned by midpoint (each copy)
\* equals the key of the reference algorithm: l while r - l < 2 at the
\* position, and floor((l + r) / 2) at the first position with r - l >= 2,
\* where the key ends
C30_EqualsReference ==
    kpc \in {"lexorank", "utils", "server"} => kout = Reference(kl, kr)

\* A call of app.utils whose scan ran past the end of both bounds
C30_Witness ==
    /\ kpc = "utils"
    /\ kl # None /\ kr # None
    /\ Len(kout) > Len(kl) /\ Len(kout) > Len(kr)
    /\ kout = Reference(kl, kr)

C32_AdminRowKept ==
    variant = "app" =>
       \A b \in BoardIds :
          boards[b].exists
             => \E u \in Users :
                   members[b][u].exists /\ members[b][u].role = "admin"

\* len(k), with None counted as length 0
KeyLen(k) == IF k = None THEN 0 ELSE Len(k)

\* The longer of the two bounds of the call
LongerBound == IF KeyLen(kl) >= KeyLen(kr) THEN KeyLen(kl) ELSE KeyLen(kr)

\* C33: midpoint (each copy) returns for every pair of bounds over the
\* alphabet, left = right and left > right included: the position at which
\* the scan stops (the position of the key's last symbol) is at most
\* max(len(left), len(right)), and a scan that gets that far splits the
\* padded digits 0 and 35 there
C33_ScanStops ==
    kpc \in {"lexorank", "utils", "server"} =>
       /\ Len(kout) >= 1
       /\ Len(kout) - 1 <= LongerBound
       /\ Len(kout) - 1 = LongerBound => kout[Len(kout)] = (MIN + MAX) \div 2

\* The server's copy was called with left = right and scanned to the end
C33_Witness ==
    /\ kpc = "server"
    /\ kl # None /\ kl = kr
    /\ Len(kout) - 1 = LongerBound

\* C34: len(midpoint(left, right)) <= max(len(left), len(right)) + 1, with
\* None counted as length 0
C34_LengthBound ==
    kpc \in {"lexorank", "utils"} => Len(kout) <= LongerBound + 1

\* A call with left > right whose key is one symbol longer than the bounds
C34_Witness ==
    /\ kpc = "lexorank"
    /\ kl # None /\ kr # None /\ LexLess(kr, kl)
    /\ Len(kout) = LongerBound + 1

\* A non-empty string over the 36-symbol alphabet whose last symbol is not
\* "0"
EndsAboveZero(k) ==
    /\ k # None
    /\ Len(k) >= 1
    /\ \A i \in 1..Len(k) : k[i] \in Symbols
    /\ k[Len(k)] # MIN

\* The sort keys of the rows that exist
StoredKeys ==
    {columns[c].sort_key : c \in {x \in ColIds : columns[x].exists}}
       \cup {cards[c].sort_key : c \in {x \in CardIds : cards[x].exists}}

\* C35: after any sequence of creates and moves every stored sort key is a
\* non-empty string over the alphabet that does not end in "0"; so is
\* the key each copy of midpoint returns for any two bounds taken from the
\* stored keys and None; and below every stored key there is a strictly
\* smaller key, the one midpoint(None, key) returns
C35_KeysEndAboveZero ==
    /\ \A k \in StoredKeys : EndsAboveZero(k)
    /\ \A l, r \in StoredKeys \cup {None} :
          /\ EndsAboveZero(midpoint(l, r))
          /\ EndsAboveZero(lexo_midpoint(l, r))
          /\ EndsAboveZero(server_midpoint(l, r))
    /\ \A k \in StoredKeys :
          /\ LexLess(midpoint(None, k), k)
          /\ LexLess(lexo_midpoint(None, k), k)
          /\ LexLess(server_midpoint(None, k), k)

\* A create or move was applied and stored a key of two symbols
C35_Witness ==
    /\ \E s \in Sessions :
          /\ ses[s].pc = "done"
          /\ ses[s].resp \in {200, 201}
          /\ ses[s].op \in {"create_column", "move_column",
                            "create_card", "move_card"}
    /\ \E k \in StoredKeys : Len(k) = 2 /\ EndsAboveZero(k)

\* C36: in every reachable state the column named by a card's column_id is
\* a column of the card's own board
C36_CardColumnOnCardBoard ==
    \A k \in CardIds :
       cards[k].exists
          => /\ cards[k].column \in ColIds
             /\ columns[cards[k].column].exists
             /\ columns[cards[k].column].board = cards[k].board

\* C37: a move_card whose first commit fails and which is applied by the
\* retry (it persists the refined key, candidate + "m") ends with the card
\* in the requested target column
C37_RetryKeepsTarget ==
    [][\A s \in Sessions, k \in CardIds :
          (/\ Ends(s, "move_card", k)
           /\ ses'[s].resp = 200
           /\ cards'[k].sort_key = Append(ses[s].w.key, FillerM))
             => cards'[k].column =
                   IF ses[s].w.col = NoId THEN cards[k].column
                   ELSE ses[s].w.col
      ]_vars

\* The candidate key of the call lies strictly between its bounds (None is
\* no bound)
CandidateBetween ==
    /\ kpc = "utils"
    /\ kl # None => LexLess(kl, kout)
    /\ kr # None => LexLess(kout, kr)

\* C38: for a candidate k = lexo_midpoint(left, right) with left < k < right,
\* the refined key k + "m" of the retry paths differs from k and also lies
\* strictly between left and right
C38_RefinedKeyBetween ==
    CandidateBetween =>
       /\ Append(kout, FillerM) # kout
       /\ kl # None => LexLess(kl, Append(kout, FillerM))
       /\ kr # None => LexLess(Append(kout, FillerM), kr)

\* A candidate between two bounds that shares its first symbol with the
\* right bound
C38_Witness ==
    /\ CandidateBetween
    /\ kl # None /\ kr # None
    /\ kout[1] = kr[1]
    /\ LexLess(Append(kout, FillerM), kr)

\* C39: an invitation token is accepted at most once: an accept_invitation
\* that succeeds, and so creates a membership, finds the invitation pending
\* when it commits and leaves it accepted; no accept of an invitation that
\* was already accepted, sequential or concurrent, succeeds
C39_AcceptedOnce ==
    [][\A s \in Sessions, i \in InvIds :
          (Ends(s, "accept_invitation", i) /\ ses'[s].resp = 200)
             => /\ invitations[i].status = "pending"
                /\ invitations'[i].status = "accepted"
      ]_vars

\* C40: for every pair of bounds, app.lexorank.midpoint, app.utils.lexo_midpoint
\* and server.midpoint return the same key: whichever copy was called, its
\* key is the key of each of the three
C40_CopiesAgree ==
    kpc \in {"lexorank", "utils", "server"} =>
       /\ kout = midpoint(kl, kr)
       /\ kout = lexo_midpoint(kl, kr)
       /\ kout = server_midpoint(kl, kr)

\* The server's copy was called with two bounds that share a prefix and
\* returned a key of more than one symbol
C40_Witness ==
    /\ kpc = "server"
    /\ kl # None /\ kr # None
    /\ kl[1] = kr[1]
    /\ Len(kout) > 1
====
